---------------------------- MODULE Spec2Model ----------------------------
(***************************************************************************)
(* Model of the documentation-update agent of wolfeiq/doc_reader:          *)
(*   - QueryOrchestrator.process and ToolExecutor  (app/ai/orchestrator.py)*)
(*   - validate_tool_args                          (app/ai/tool_schemas.py)*)
(*   - the process endpoints                   (app/api/routes/queries.py) *)
(*   - process_query_async and its failure handler                         *)
(*                                             (app/tasks/query_tasks.py)  *)
(*                                                                         *)
(* One run record (one query id) is modelled, with at most one             *)
(* orchestrator invocation in flight.  Every await of process is one       *)
(* action; whatever the awaited collaborator can do (return, raise) is a   *)
(* nondeterministic outcome of that action.                                *)
(*                                                                         *)
(* Numbers: a confidence is kept in tenths (5 is 0.5, 10 is 1.0).          *)
(* Strings: an error message is a tuple of its parts, e.g.                 *)
(*   <<"Validation error", "Unknown tool", "drop_table">>                  *)
(* stands for "Validation error: Unknown tool: drop_table".                *)
(***************************************************************************)
EXTENDS Integers, Sequences, FiniteSets, TLC

VARIABLES
    dbStatus,           \* committed Query.status; "absent" when the row does not exist
    dbError,            \* committed Query.error_message
    dbMessage,          \* the count named in the committed Query.status_message
    suggestions,        \* committed EditSuggestion rows
    mode,               \* publisher behind the emitter: "none", "direct", "celery"
    job,                \* background job: "none", "running", "raised", "succeeded", "failed"
    retries,            \* retries of the background job performed so far
    pc,                 \* position of the invocation of QueryOrchestrator.process
    sessStatus,         \* query.status as held by the session's Query object
    pending,            \* EditSuggestion rows flushed in the session, not yet committed
    iteration,          \* loop variable of the agentic loop
    toolCalls,          \* message.tool_calls of the reply being processed
    callIdx,            \* index in toolCalls of the call being processed
    searched_queries,   \* AgentState.searched_queries
    analyzed_sections,  \* AgentState.analyzed_sections
    proposed_edits,     \* AgentState.proposed_edits
    messages,           \* AgentState.messages, the transcript
    events,             \* events published through the emitter by this invocation
    completions,        \* calls made to the completion service by this invocation
    collabCalls,        \* calls made by tool handlers to search / database / dependency service
    lastExec,           \* what the last ToolExecutor.execute was given and what it returned
    result,             \* value returned by process
    exc,                \* str(e) of the exception process caught or raised last
    published,          \* events handed to publish before close, in call order
    late,               \* number of publish calls made after close
    closed,             \* close has been called on the publishers
    queue,              \* DirectEventPublisher._events
    yieldedDirect,      \* events yielded so far by DirectEventPublisher.events()
    directDone,         \* DirectEventPublisher.events() has ended
    stream,             \* entries of the Redis stream of the run
    subPc,              \* position of RedisEventSubscriber.events()
    last_id,            \* RedisEventSubscriber._last_id
    batch,              \* entries of the last XREAD not yet processed
    yieldedRedis,       \* events yielded so far by RedisEventSubscriber.events()
    elapsed,            \* seconds since the subscriber's start_time
    last_heartbeat,     \* seconds between start_time and last_heartbeat
    queries,            \* the queries table as cleanup sees it: status and created_at per run
    now,                \* the clock, in days
    cleanPc,            \* position of cleanup_old_queries: "idle"; after its select
                        \* "selected", "reselected" (same cutoff as a completed
                        \* execution, table unchanged since), "stale" (table changed)
    cutoff_date,        \* cutoff_date of the execution of cleanup_old_queries under way
    selected,           \* the runs its select returned
    deleted_count,      \* deleted_count of the last CleanupResultDict returned
    cleanedAt,          \* cutoffs of executions completed since the table last changed
    invocations         \* per request to process the run: "none", "rejected", or the
                        \* position of the invocation of process it started

agentVars == <<searched_queries, analyzed_sections, proposed_edits>>
loopVars  == <<iteration, toolCalls, callIdx, completions>>
dbVars    == <<dbStatus, dbError, dbMessage, suggestions>>
jobVars   == <<mode, job, retries>>
busVars   == <<published, late, closed, queue, yieldedDirect, directDone, stream,
               subPc, last_id, batch, yieldedRedis, elapsed, last_heartbeat>>
procVars  == <<dbStatus, dbError, dbMessage, suggestions, mode, job, retries, pc,
               sessStatus, pending, iteration, toolCalls, callIdx, searched_queries,
               analyzed_sections, proposed_edits, messages, events, completions,
               collabCalls, lastExec, result, exc>>
cleanVars == <<queries, now, cleanPc, cutoff_date, selected, deleted_count, cleanedAt>>
vars == <<procVars, busVars, cleanVars, invocations>>

-----------------------------------------------------------------------------
(* Program constants *)

MAX_ITERATIONS == 15
DEFAULT_CONFIDENCE == 5
ConfidenceMin == 0
ConfidenceMax == 10
NResultsMin == 1
NResultsMax == 20
NResultsDefault == 10
HandlerNResultsCap == 20
max_retries == 3
STREAM_MAX_LEN == 1000
XREAD_COUNT == 10
XREAD_BLOCK == 5            \* seconds
RETRY_SLEEP == 1            \* seconds
heartbeat_interval == 15    \* seconds

(* Bounds of the model *)

MaxCallsPerReply == 2      \* tool calls in one reply of the completion service
MaxToolCalls == 2          \* tool calls requested in one run by the free completion service
MaxEdits == 2              \* EditSuggestion rows one run may accumulate
MaxHits == 1               \* results a search returns
MaxVariedIter == 1         \* iterations of the long run whose reply is drawn freely
MaxEvents == 11            \* publish calls made to the publishers of one run
MaxOpenEvents == 2         \* publish calls of a run whose stream is never closed
SubscriberTimeout == 32    \* seconds: the timeout the subscriber is constructed with
MaxRuns == 2               \* runs the queries table holds at a time
MaxDay == 2                \* days the clock runs
MaxDaysOld == 1            \* largest days_old cleanup_old_queries is called with
MaxRequests == 3           \* requests made to process one run
MaxAttempts == 2           \* executions of process for one run, the first included

-----------------------------------------------------------------------------
(* Data *)

NoError == <<>>
\* no count is named in the status message
NoCount == -1
NoCall == 0

ToolNames == {"semantic_search", "get_section_content", "find_dependencies",
              "propose_edit", "get_document_structure", "search_by_file_path"}

\* the strings the model uses that parse as a UUID
UuidStrings == {"sec-1", "sec-9", "doc-1", "doc-9"}
\* rows of the database
StoredSections == {"sec-1"}
StoredDocuments == {"doc-1"}

Min(a, b) == IF a < b THEN a ELSE b
Max(a, b) == IF a > b THEN a ELSE b


-----------------------------------------------------------------------------
(* json.loads(tool_call.function.arguments).  The arguments text of a call  *)
(* is a record: [json |-> "malformed"] does not parse, [json |-> "array"]   *)
(* parses to a value that is no mapping, [json |-> "object", bag |-> r]     *)
(* parses to the argument bag r.                                            *)

JsonLoads(arguments) ==
    IF arguments.json = "malformed"
    THEN [raises |-> TRUE,  value |-> [json |-> "malformed"]]
    ELSE [raises |-> FALSE, value |-> arguments]

IsMapping(value) == value.json = "object"

-----------------------------------------------------------------------------
(* app/ai/tool_schemas.py *)

Has(bag, f) == f \in DOMAIN bag

IsUuid(s) == s \in UuidStrings

\* a mutant of SemanticSearchArgsOk: n_results has no upper bound
SemanticSearchArgsOkUnbounded(bag) ==
    /\ Has(bag, "query") /\ bag.query # ""
    /\ Has(bag, "n_results") => bag.n_results >= NResultsMin

\* SemanticSearchArgs
SemanticSearchArgsOk(bag) ==
    /\ Has(bag, "query") /\ bag.query # ""
    /\ Has(bag, "n_results") => (bag.n_results >= NResultsMin /\ bag.n_results <= NResultsMax)

\* GetSectionContentArgs
GetSectionContentArgsOk(bag) ==
    Has(bag, "section_id") /\ IsUuid(bag.section_id)

\* FindDependenciesArgs
FindDependenciesArgsOk(bag) ==
    /\ Has(bag, "section_id") /\ IsUuid(bag.section_id)
    /\ Has(bag, "direction") => bag.direction \in {"incoming", "outgoing", "both"}

\* ProposeEditArgs
ProposeEditArgsOk(bag) ==
    /\ Has(bag, "section_id") /\ IsUuid(bag.section_id)
    /\ Has(bag, "suggested_text") /\ bag.suggested_text # ""
    /\ Has(bag, "reasoning") /\ bag.reasoning # ""
    /\ Has(bag, "confidence") =>
          (bag.confidence >= ConfidenceMin /\ bag.confidence <= ConfidenceMax)

\* GetDocumentStructureArgs
GetDocumentStructureArgsOk(bag) ==
    Has(bag, "document_id") /\ IsUuid(bag.document_id)

\* SearchByFilePathArgs
SearchByFilePathArgsOk(bag) ==
    Has(bag, "path_pattern") /\ bag.path_pattern # ""

\* app/ai/tools.py: the names of the tools in TOOLS, in the order of the list
TOOLS == <<"semantic_search", "get_section_content", "find_dependencies",
           "propose_edit", "get_document_structure", "search_by_file_path">>

\* TOOL_ARG_SCHEMAS: the names that have a schema
TOOL_ARG_SCHEMAS == {"semantic_search", "get_section_content", "find_dependencies",
                     "propose_edit", "get_document_structure", "search_by_file_path"}

SchemaOk(tool_name, bag) ==
    CASE tool_name = "semantic_search"        -> SemanticSearchArgsOk(bag)
      [] tool_name = "get_section_content"    -> GetSectionContentArgsOk(bag)
      [] tool_name = "find_dependencies"      -> FindDependenciesArgsOk(bag)
      [] tool_name = "propose_edit"           -> ProposeEditArgsOk(bag)
      [] tool_name = "get_document_structure" -> GetDocumentStructureArgsOk(bag)
      [] tool_name = "search_by_file_path"    -> SearchByFilePathArgsOk(bag)

\* model_dump() of the validated model: the bag with the schema's defaults filled in
WithDefaults(tool_name, bag) ==
    CASE tool_name = "semantic_search" ->
            [query |-> bag.query,
             n_results |-> IF Has(bag, "n_results") THEN bag.n_results ELSE NResultsDefault]
      [] tool_name = "find_dependencies" ->
            [section_id |-> bag.section_id,
             direction |-> IF Has(bag, "direction") THEN bag.direction ELSE "both"]
      [] tool_name = "propose_edit" ->
            [section_id |-> bag.section_id,
             suggested_text |-> bag.suggested_text,
             reasoning |-> bag.reasoning,
             confidence |-> IF Has(bag, "confidence") THEN bag.confidence
                            ELSE DEFAULT_CONFIDENCE]
      [] OTHER -> bag

\* a mutant of validate_tool_args: a name without a schema is let through
ValidateToolArgsNoNameCheck(tool_name, args) ==
    IF tool_name \notin TOOL_ARG_SCHEMAS
    THEN [raises |-> "none", error |-> NoError, value |-> args.bag]
    ELSE IF ~IsMapping(args)
    THEN [raises |-> "TypeError", error |-> <<"argument after ** must be a mapping">>,
          value |-> args]
    ELSE IF ~SchemaOk(tool_name, args.bag)
    THEN [raises |-> "ValueError", error |-> <<"validation error for", tool_name>>,
          value |-> args]
    ELSE [raises |-> "none", error |-> NoError, value |-> WithDefaults(tool_name, args.bag)]

\* validate_tool_args(tool_name, args): what it raises (a pydantic ValidationError
\* is a ValueError; schema(**args) with args no mapping is a TypeError), or the
\* validated arguments
validate_tool_args(tool_name, args) ==
    IF tool_name \notin TOOL_ARG_SCHEMAS
    THEN [raises |-> "ValueError", error |-> <<"Unknown tool", tool_name>>, value |-> args]
    ELSE IF ~IsMapping(args)
    THEN [raises |-> "TypeError", error |-> <<"argument after ** must be a mapping">>,
          value |-> args]
    ELSE IF ~SchemaOk(tool_name, args.bag)
    THEN [raises |-> "ValueError", error |-> <<"validation error for", tool_name>>,
          value |-> args]
    ELSE [raises |-> "none", error |-> NoError, value |-> WithDefaults(tool_name, args.bag)]

-----------------------------------------------------------------------------
(* app/services/event_service.py: EventEmitter over a publisher *)

Event(kind, tool, call, n) == [event |-> kind, tool |-> tool, call |-> call, n |-> n]

\* publisher.publish(event): DirectEventPublisher.publish puts the event on an
\* unbounded queue and cannot fail; RedisEventPublisher.publish_sync re-raises
\* whatever the Redis client raises.  down: Redis fails this call.
Publish(evs, ev, publisher, down) ==
    IF publisher = "celery" /\ down
    THEN [raised |-> TRUE,  exc |-> <<"Redis publish failed">>, events |-> evs]
    ELSE [raised |-> FALSE, exc |-> NoError, events |-> Append(evs, ev)]

\* EventEmitter.suggestion: its parameters without a default
SuggestionRequired ==
    {"suggestion_id", "document_id", "section_title", "file_path", "confidence"}

-----------------------------------------------------------------------------
(* app/ai/orchestrator.py: ToolExecutor.                                    *)
(* st is the state a handler works on: AgentState, the session's flushed    *)
(* rows, the events published and the count of collaborator calls.          *)
(* o is what the environment does during this call: o.fault names the       *)
(* collaborator that fails ("none", "collaborator", "flush", "publish"),    *)
(* o.hits is the number of results a search finds.                          *)

ToolError(msg) == [error |-> msg]

Returned(st, ret) == [raised |-> FALSE, exc |-> NoError, st |-> st, ret |-> ret]
Raised(st, msg)   == [raised |-> TRUE,  exc |-> msg, st |-> st, ret |-> ToolError(msg)]

Called(st) == [st EXCEPT !.collabCalls = @ + 1]

\* a mutant of HandleSemanticSearch: the query is recorded after the search
\* has succeeded
HandleSemanticSearchAppendsOnSuccess(args, o, st) ==
    LET n_results == Min(args.n_results, HandlerNResultsCap)
        st1 == Called(st)
    IN  IF o.fault = "collaborator"
        THEN Raised(st1, <<"Search failed">>)
        ELSE Returned([st1 EXCEPT !.searched_queries = Append(@, args.query)],
                      [results |-> Min(o.hits, n_results),
                       count |-> Min(o.hits, n_results),
                       query |-> args.query])

\* _handle_semantic_search
HandleSemanticSearch(args, o, st) ==
    LET n_results == Min(args.n_results, HandlerNResultsCap)
        st1 == [st EXCEPT !.searched_queries = Append(@, args.query)]
        st2 == Called(st1)
    IN  IF o.fault = "collaborator"
        THEN Raised(st2, <<"Search failed">>)
        ELSE Returned(st2, [results |-> Min(o.hits, n_results),
                            count |-> Min(o.hits, n_results),
                            query |-> args.query])

\* a mutant of HandleGetSection: the id is recorded before the lookup answers
HandleGetSectionAddsOnMiss(args, o, st) ==
    LET st1 == [Called(st) EXCEPT !.analyzed_sections = @ \cup {args.section_id}]
    IN  IF o.fault = "collaborator"
        THEN Raised(st1, <<"DB error">>)
        ELSE IF args.section_id \notin StoredSections
        THEN Returned(st1, [error |-> <<"Section", args.section_id, "not found">>])
        ELSE Returned(st1, [section_id |-> args.section_id, order |-> 0])

\* _handle_get_section
HandleGetSection(args, o, st) ==
    LET st1 == Called(st)
    IN  IF o.fault = "collaborator"
        THEN Raised(st1, <<"DB error">>)
        ELSE IF args.section_id \notin StoredSections
        THEN Returned(st1, [error |-> <<"Section", args.section_id, "not found">>])
        ELSE Returned([st1 EXCEPT !.analyzed_sections = @ \cup {args.section_id}],
                      [section_id |-> args.section_id, order |-> 0])

\* _handle_find_dependencies
HandleFindDependencies(args, o, st) ==
    LET st1 == Called(st)
    IN  IF o.fault = "collaborator"
        THEN Raised(st1, <<"DB error">>)
        ELSE Returned(st1, [section_id |-> args.section_id,
                            dependencies |-> args.direction])

\* a mutant of Clamp: the confidence rescaled to a percentage
ClampPercent(c) == Max(ConfidenceMin * 10, Min(ConfidenceMax * 10, c * 10))

\* max(0.0, min(1.0, c))
Clamp(c) == Max(ConfidenceMin, Min(ConfidenceMax, c))

\* a mutant of HandleProposeEdit: the row is written without looking the
\* section up
HandleProposeEditNoLookup(args, o, st) ==
    LET confidence == Clamp(args.confidence)
        st1 == Called(st)
        row == [id |-> st.nextId,
                section_id |-> args.section_id,
                confidence |-> confidence,
                status |-> "pending"]
        edit_info == [success |-> TRUE,
                      suggestion_id |-> row.id,
                      section_id |-> args.section_id,
                      confidence |-> confidence]
    IN  IF o.fault \in {"collaborator", "flush"}
        THEN Raised(st1, <<"DB error">>)
        ELSE Returned([st1 EXCEPT !.pending = Append(@, row),
                                  !.nextId = @ + 1,
                                  !.proposed_edits = Append(@, edit_info)],
                      edit_info)

\* _handle_propose_edit
HandleProposeEdit(args, o, st) ==
    LET confidence == Clamp(args.confidence)
        st1 == Called(st)
        row == [id |-> st.nextId,
                section_id |-> args.section_id,
                confidence |-> confidence,
                status |-> "pending"]
        edit_info == [success |-> TRUE,
                      suggestion_id |-> row.id,
                      section_id |-> args.section_id,
                      confidence |-> confidence]
    IN  IF o.fault = "collaborator"
        THEN Raised(st1, <<"DB error">>)
        ELSE IF args.section_id \notin StoredSections
        THEN Returned(st1, [error |-> <<"Section", args.section_id, "not found">>])
        ELSE IF o.fault = "flush"
        THEN Raised(Called(st1), <<"DB flush failed">>)
        ELSE Returned([Called(st1) EXCEPT !.pending = Append(@, row),
                                          !.nextId = @ + 1,
                                          !.proposed_edits = Append(@, edit_info)],
                      edit_info)

\* _handle_get_document_structure
HandleGetDocumentStructure(args, o, st) ==
    LET st1 == Called(st)
    IN  IF o.fault = "collaborator"
        THEN Raised(st1, <<"DB error">>)
        ELSE IF args.document_id \notin StoredDocuments
        THEN Returned(st1, [error |-> <<"Document", args.document_id, "not found">>])
        ELSE Returned(st1, [document_id |-> args.document_id, sections |-> 1])

\* _handle_search_by_file_path
HandleSearchByFilePath(args, o, st) ==
    LET st1 == Called(st)
    IN  IF o.fault = "collaborator"
        THEN Raised(st1, <<"Search failed">>)
        ELSE Returned(st1, [results |-> Min(o.hits, HandlerNResultsCap),
                            count |-> Min(o.hits, HandlerNResultsCap),
                            pattern |-> args.path_pattern])

\* a handlers map that lacks the last tool
HandlersWithoutFilePath ==
    {"semantic_search", "get_section_content", "find_dependencies",
     "propose_edit", "get_document_structure"}

\* the handlers map of execute
Handlers == {"semantic_search", "get_section_content", "find_dependencies",
             "propose_edit", "get_document_structure", "search_by_file_path"}

Handle(tool_name, args, o, st) ==
    CASE tool_name = "semantic_search"        -> HandleSemanticSearch(args, o, st)
      [] tool_name = "get_section_content"    -> HandleGetSection(args, o, st)
      [] tool_name = "find_dependencies"      -> HandleFindDependencies(args, o, st)
      [] tool_name = "propose_edit"           -> HandleProposeEdit(args, o, st)
      [] tool_name = "get_document_structure" -> HandleGetDocumentStructure(args, o, st)
      [] tool_name = "search_by_file_path"    -> HandleSearchByFilePath(args, o, st)

\* _emit_tool_events(tool_name, tool_args, result)
EmitToolEvents(tool_name, ret, o, st) ==
    IF tool_name = "semantic_search" /\ "count" \in DOMAIN ret
    THEN LET p == Publish(st.events, Event("search_complete", tool_name, NoCall, ret.count),
                          st.publisher, o.fault = "publish")
         IN  IF p.raised THEN Raised(st, p.exc)
             ELSE Returned([st EXCEPT !.events = p.events], ret)
    ELSE IF tool_name = "propose_edit" /\ "success" \in DOMAIN ret /\ ret.success
    THEN LET passed == {"suggestion_id", "section_title", "file_path",
                        "confidence", "preview"}
             p == Publish(st.events, Event("suggestion", tool_name, NoCall, ret.suggestion_id),
                          st.publisher, o.fault = "publish")
         IN  IF ~(SuggestionRequired \subseteq passed)
             THEN Raised(st, <<"suggestion() missing 1 required positional argument",
                               "document_id">>)
             ELSE IF p.raised THEN Raised(st, p.exc)
             ELSE Returned([st EXCEPT !.events = p.events], ret)
    ELSE Returned(st, ret)

\* a mutant of CatchValidation: a collaborator is consulted before the
\* validation error is returned
CatchValidationAfterLookup(v, st) ==
    IF v.raises = "ValueError"
    THEN [caught |-> TRUE,
          out |-> Returned(Called(st), ToolError(<<"Validation error">> \o v.error))]
    ELSE [caught |-> FALSE, out |-> Returned(st, ToolError(NoError))]

\* execute, lines 95-99: except ValueError
CatchValidation(v, st) ==
    IF v.raises = "ValueError"
    THEN [caught |-> TRUE,
          out |-> Returned(st, ToolError(<<"Validation error">> \o v.error))]
    ELSE [caught |-> FALSE, out |-> Returned(st, ToolError(NoError))]

\* a mutant of CatchHandler: the exception of the handler is re-raised
CatchHandlerReraise(h) == h

\* execute, lines 118-120: except Exception
CatchHandler(h) ==
    IF h.raised THEN Returned(h.st, ToolError(h.exc)) ELSE h

\* execute(tool_name, tool_args)
Execute(tool_name, tool_args, o, st) ==
    LET v == validate_tool_args(tool_name, tool_args)
        c == CatchValidation(v, st)
    IN  IF c.caught THEN c.out
        ELSE IF v.raises = "TypeError" THEN Raised(st, v.error)
        ELSE IF tool_name \notin Handlers
        THEN Returned(st, ToolError(<<"Unknown tool", tool_name>>))
        ELSE LET h == Handle(tool_name, v.value, o, st)
             IN  IF h.raised THEN CatchHandler(h)
                 ELSE LET e == EmitToolEvents(tool_name, h.ret, o, h.st)
                      IN  CatchHandler(e)

-----------------------------------------------------------------------------
(* The environment of one invocation of process.  An action takes env, a    *)
(* record of what the collaborators may do:                                 *)
(*   env.universe  the tool calls the completion service may request        *)
(*   env.maxReply  the most tool calls its next reply may carry             *)
(*   env.faults    the failures a step may meet: "db" (execute, commit),    *)
(*                 "publish" (Redis), "llm" (completion service)            *)
(*   env.outcomes  what the collaborators of a tool handler may do          *)

Obj(bag) == [json |-> "object", bag |-> bag]
Call(name, arguments) == [name |-> name, arguments |-> arguments]

EditBag(section, conf) ==
    [section_id |-> section, suggested_text |-> "new text", reasoning |-> "why",
     confidence |-> conf]

\* confidences the completion service supplies, in tenths
Confidences == {-3, 5, 17}

SearchCalls ==
    { Call("semantic_search", Obj([query |-> "auth"])),
      Call("semantic_search", Obj([query |-> ""])),
      Call("semantic_search", Obj([query |-> "auth", n_results |-> 100])),
      Call("semantic_search", Obj([query |-> "auth", n_results |-> 0])),
      Call("search_by_file_path", Obj([path_pattern |-> "docs/"])) }

SectionCalls ==
    { Call("get_section_content", Obj([section_id |-> s])) :
          s \in {"sec-1", "sec-9", "not-a-uuid"} }
    \cup { Call("find_dependencies", Obj([section_id |-> "sec-1"])),
           Call("find_dependencies", Obj([section_id |-> "not-a-uuid"])),
           Call("find_dependencies", Obj([section_id |-> "sec-1", direction |-> "sideways"])) }
    \cup { Call("get_document_structure", Obj([document_id |-> d])) :
          d \in {"doc-1", "doc-9", "not-a-uuid"} }

EditCalls ==
    { Call("propose_edit", Obj(EditBag("sec-1", c))) : c \in Confidences }
    \cup { Call("propose_edit", Obj(EditBag("sec-9", 5))) }
    \cup { Call("propose_edit",
                Obj([section_id |-> "sec-1", suggested_text |-> "new text",
                     reasoning |-> "why"])) }

OddCalls ==
    { Call("drop_table", Obj([table |-> "queries"])),
      Call("SEMANTIC_SEARCH", Obj([query |-> "auth"])),
      Call("semantic_search", [json |-> "malformed"]),
      Call("semantic_search", [json |-> "array"]) }

AllCalls == SearchCalls \cup SectionCalls \cup EditCalls \cup OddCalls

LifeCalls ==
    { Call("semantic_search", Obj([query |-> "auth"])),
      Call("propose_edit", Obj(EditBag("sec-1", 5))) }

\* the calls of the runs in which every step may fail
RunCalls ==
    { Call("semantic_search", Obj([query |-> "auth"])),
      Call("get_section_content", Obj([section_id |-> "sec-1"])),
      Call("get_section_content", Obj([section_id |-> "sec-9"])),
      Call("get_section_content", Obj([section_id |-> "not-a-uuid"])),
      Call("propose_edit", Obj(EditBag("sec-1", 5))),
      Call("propose_edit", Obj(EditBag("sec-1", 17))),
      Call("drop_table", Obj([table |-> "queries"])),
      Call("semantic_search", [json |-> "malformed"]),
      Call("semantic_search", [json |-> "array"]) }

LoopCalls ==
    { Call("semantic_search", Obj([query |-> "auth"])),
      Call("get_section_content", Obj([section_id |-> "sec-1"])),
      Call("propose_edit", Obj(EditBag("sec-1", 5))) }

\* the one call of the later iterations of the long run
PlainCalls == { Call("semantic_search", Obj([query |-> "auth"])) }

AllOutcomes ==
    [fault : {"none", "collaborator", "flush", "publish"}, hits : 0..MaxHits]

CalmOutcomes == [fault : {"none"}, hits : 0..MaxHits]

\* an edit the handler would persist
PersistingEdit(c) ==
    /\ c.name = "propose_edit"
    /\ validate_tool_args(c.name, c.arguments).raises = "none"
    /\ c.arguments.bag.section_id \in StoredSections

RECURSIVE CountEdits(_, _)
CountEdits(calls, i) ==
    IF i > Len(calls) THEN 0
    ELSE (IF PersistingEdit(calls[i]) THEN 1 ELSE 0) + CountEdits(calls, i + 1)

RECURSIVE Requested(_, _)
\* the tool calls requested by the assistant turns of a transcript from turn i on
Requested(msgs, i) ==
    IF i > Len(msgs) THEN 0
    ELSE Len(msgs[i].tool_calls) + Requested(msgs, i + 1)

EditRoom == MaxEdits - (Len(suggestions) + Len(pending))

\* the tool calls the completion service may still request in this invocation
CallRoom == MaxToolCalls - Requested(messages, 1)

\* one tool call, any call, any outcome
ExecEnv ==
    [universe |-> AllCalls,
     maxReply |-> IF Requested(messages, 1) = 0 THEN 1 ELSE 0,
     faults   |-> {"none", "db", "publish", "llm"},
     outcomes |-> AllOutcomes]

ToolsEnv ==
    [universe |-> RunCalls,
     maxReply |-> Min(MaxCallsPerReply, CallRoom),
     faults   |-> {"none", "db", "publish", "llm"},
     outcomes |-> AllOutcomes]

LifeEnv ==
    [universe |-> LifeCalls,
     maxReply |-> Min(1, CallRoom),
     faults   |-> {"none", "db", "publish", "llm"},
     outcomes |-> CalmOutcomes]

\* the completion service is the one collaborator that may fail
LlmEnv ==
    [universe |-> LoopCalls,
     maxReply |-> Min(MaxCallsPerReply, CallRoom),
     faults   |-> {"none", "llm"},
     outcomes |-> CalmOutcomes]

\* a completion service that requests tool calls in every reply (or stops), and
\* collaborators that do not fail and find MaxHits results; past the first
\* MaxVariedIter iterations the request is one plain search
LoopEnv ==
    [universe |-> IF iteration < MaxVariedIter THEN LoopCalls ELSE PlainCalls,
     maxReply |-> IF iteration < MaxVariedIter THEN MaxCallsPerReply ELSE 1,
     faults   |-> {"none"},
     outcomes |-> {[fault |-> "none", hits |-> MaxHits]}]

-----------------------------------------------------------------------------
(* app/ai/orchestrator.py: QueryOrchestrator.process, one action per await  *)

Turn(role, id, calls, content) ==
    [role |-> role, tool_call_id |-> id, tool_calls |-> calls, content |-> content]

NoExec == [tool |-> "", args |-> [json |-> "none"], validation |-> "none",
           raised |-> FALSE, ret |-> ToolError(NoError), fault |-> "none"]

ProcessResult(status, error) ==
    [status |-> status, error |-> error,
     searches_performed |-> 0, sections_analyzed |-> 0, suggestions_created |-> 0]

NoResult == ProcessResult("none", NoError)

\* a mutant of Stats: searches are counted by distinct query
StatsDistinctQueries ==
    [searches_performed |-> Cardinality({ searched_queries[i] : i \in DOMAIN searched_queries }),
     sections_analyzed |-> Cardinality(analyzed_sections),
     suggestions_created |-> Len(proposed_edits)]

\* AgentState.stats
Stats ==
    [searches_performed |-> Len(searched_queries),
     sections_analyzed |-> Cardinality(analyzed_sections),
     suggestions_created |-> Len(proposed_edits)]

\* the emitter publishes ev; down: the publisher's transport fails this call
Emit(ev, down) == Publish(events, ev, mode, down)

\* str(e) of the exceptions a step of process may meet
DbFailed == <<"database error">>
CompletionFailed == <<"completion service error">>
JsonFailed == <<"Expecting value">>

\* a mutant of CompletedResult: the counters are left out
CompletedResultNoCounters(stats) == ProcessResult("completed", NoError)

\* lines 406-413: the result of a completed run, with **state.stats
CompletedResult(stats) ==
    [status |-> "completed", error |-> NoError,
     searches_performed |-> stats.searches_performed,
     sections_analyzed |-> stats.sections_analyzed,
     suggestions_created |-> stats.suggestions_created]

\* a mutant of FailedResult: the message of the exception is left out
FailedResultNoMessage(e) == ProcessResult("failed", NoError)

\* lines 424-428: the result of a failed run, error=str(e)
FailedResult(e) == ProcessResult("failed", e)

\* line 397: status_message = f"Generated {len(state.proposed_edits)} suggestions"
CompletedMessage(edits) == Len(edits)

\* a mutant of NotFoundResult: the missing run is reported as completed
NotFoundResultCompleted == ProcessResult("completed", NoError)

\* lines 331-335: the result for a run that does not exist
NotFoundResult == ProcessResult("failed", <<"Query not found">>)

\* a mutant of LoopContinues: the bound is off by one
LoopContinuesOffByOne(i) == i <= MAX_ITERATIONS

\* for iteration in range(MAX_ITERATIONS): is there an iteration i
LoopContinues(i) == i < MAX_ITERATIONS

\* new publishers, no subscriber yet: an empty queue and no stream
BusIdle ==
    /\ published = <<>>
    /\ late = 0
    /\ closed = FALSE
    /\ queue = <<>>
    /\ yieldedDirect = <<>>
    /\ directDone = FALSE
    /\ stream = <<>>
    /\ subPc = "none"
    /\ last_id = 0
    /\ batch = <<>>
    /\ yieldedRedis = <<>>
    /\ elapsed = 0
    /\ last_heartbeat = 0

\* an empty queries table and no cleanup under way
CleanIdle ==
    /\ queries = [i \in 1..MaxRuns |-> [status |-> "absent", created_at |-> 0]]
    /\ now = 0
    /\ cleanPc = "idle"
    /\ cutoff_date = 0
    /\ selected = {}
    /\ deleted_count = NoCount
    /\ cleanedAt = {}

\* the state a fresh invocation starts in: AgentState(query_id, query_text)
FreshInvocation ==
    /\ sessStatus = "none"
    /\ pending = <<>>
    /\ iteration = 0
    /\ toolCalls = <<>>
    /\ callIdx = 0
    /\ searched_queries = <<>>
    /\ analyzed_sections = {}
    /\ proposed_edits = <<>>
    /\ messages = <<>>
    /\ events = <<>>
    /\ completions = 0
    /\ collabCalls = 0
    /\ lastExec = NoExec
    /\ result = NoResult
    /\ exc = NoError
    /\ BusIdle
    /\ CleanIdle
    /\ invocations = [r \in 1..MaxRequests |-> "none"]

\* lines 327-336: load the run; report a missing one
Load(env) ==
    /\ pc = "load"
    /\ \E f \in env.faults \cap {"none", "db", "publish"} :
        LET e == Emit(Event("error", "Query not found", NoCall, 0), f = "publish")
        IN  IF f = "db"
            THEN /\ pc' = "raised"
                 /\ exc' = DbFailed
                 /\ UNCHANGED <<sessStatus, events, result>>
            ELSE IF dbStatus = "absent"
            THEN /\ pc' = IF e.raised THEN "raised" ELSE "returned"
                 /\ events' = e.events
                 /\ result' = IF e.raised THEN result ELSE NotFoundResult
                 /\ exc' = IF e.raised THEN e.exc ELSE exc
                 /\ UNCHANGED sessStatus
            ELSE /\ pc' = "start"
                 /\ sessStatus' = dbStatus
                 /\ UNCHANGED <<events, result, exc>>
    /\ UNCHANGED <<invocations, cleanVars, busVars, dbVars, jobVars, pending, loopVars, agentVars, messages,
                   collabCalls, lastExec>>

\* lines 339-341: status = PROCESSING, commit
MarkProcessing(env) ==
    /\ pc = "start"
    /\ \E f \in env.faults \cap {"none", "db"} :
        IF f = "db"
        THEN /\ pc' = "raised"
             /\ sessStatus' = dbStatus
             /\ exc' = DbFailed
             /\ UNCHANGED <<dbStatus, dbMessage>>
        ELSE /\ pc' = "status"
             /\ sessStatus' = "processing"
             /\ dbStatus' = "processing"
             /\ dbMessage' = NoCount
             /\ UNCHANGED exc
    /\ UNCHANGED <<invocations, cleanVars, busVars, dbError, suggestions, jobVars, pending, loopVars, agentVars,
                   messages, events, collabCalls, lastExec, result>>

\* lines 343-356 with the system turn of lines 348-351 left out of the list
EmitProcessingUserOnly(env) ==
    /\ pc = "status"
    /\ pc' = IF LoopContinues(iteration) THEN "complete" ELSE "commit1"
    /\ events' = Append(events, Event("status", "processing", NoCall, 0))
    /\ messages' = <<Turn("user", NoCall, <<>>, NoError)>>
    /\ UNCHANGED <<invocations, cleanVars, busVars, dbVars, jobVars, sessStatus, pending, loopVars, agentVars,
                   exc, collabCalls, lastExec, result>>

\* lines 343-356: the 'processing' status event, then the transcript is seeded
EmitProcessing(env) ==
    /\ pc = "status"
    /\ \E f \in env.faults \cap {"none", "publish"} :
        LET e == Emit(Event("status", "processing", NoCall, 0), f = "publish")
        IN  IF e.raised
            THEN /\ pc' = "raised"
                 /\ exc' = e.exc
                 /\ UNCHANGED <<events, messages>>
            ELSE /\ pc' = IF LoopContinues(iteration) THEN "complete" ELSE "commit1"
                 /\ events' = e.events
                 /\ UNCHANGED exc
                 /\ messages' = <<Turn("system", NoCall, <<>>, NoError),
                                  Turn("user", NoCall, <<>>, NoError)>>
    /\ UNCHANGED <<invocations, cleanVars, busVars, dbVars, jobVars, sessStatus, pending, loopVars, agentVars,
                   collabCalls, lastExec, result>>

\* lines 362-375: one call of the completion service and its reply
Complete(env) ==
    /\ pc = "complete"
    /\ completions' = completions + 1
    /\ \E f \in env.faults \cap {"none", "llm", "publish"} :
        IF f = "llm"
        THEN /\ pc' = "except"
             /\ exc' = CompletionFailed
             /\ UNCHANGED <<messages, events, toolCalls, callIdx>>
        ELSE \E n \in 0..Max(0, env.maxReply) :
             \E picked \in [1..n -> env.universe] :
                LET first == Requested(messages, 1)
                    calls == [k \in 1..n |->
                                [id |-> first + k, name |-> picked[k].name,
                                 arguments |-> picked[k].arguments]]
                    ids   == [k \in 1..n |-> first + k]
                    e     == Emit(Event("status", "finalizing", NoCall, 0), f = "publish")
                IN  /\ CountEdits(calls, 1) <= EditRoom
                    /\ messages' = Append(messages, Turn("assistant", NoCall, ids, NoError))
                    /\ IF n = 0
                       THEN /\ pc' = IF e.raised THEN "except" ELSE "commit1"
                            /\ events' = e.events
                            /\ exc' = IF e.raised THEN e.exc ELSE exc
                            /\ UNCHANGED <<toolCalls, callIdx>>
                       ELSE /\ pc' = "announce"
                            /\ toolCalls' = calls
                            /\ callIdx' = 1
                            /\ UNCHANGED <<events, exc>>
    /\ UNCHANGED <<invocations, cleanVars, busVars, dbVars, jobVars, sessStatus, pending, iteration, agentVars,
                   collabCalls, lastExec, result>>

\* lines 378-382 iterating over reversed(message.tool_calls) for the event only
AnnounceReversed(env) ==
    /\ pc = "announce"
    /\ LET tool_call == toolCalls[Len(toolCalls) - callIdx + 1]
       IN  events' = Append(events, Event("tool_call", tool_call.name, tool_call.id, 0))
    /\ pc' = "execute"
    /\ UNCHANGED <<invocations, cleanVars, busVars, dbVars, jobVars, sessStatus, pending, loopVars, agentVars,
                   messages, exc, collabCalls, lastExec, result>>

\* lines 379-382: parse the arguments of the next call, publish the tool_call event
Announce(env) ==
    /\ pc = "announce"
    /\ \E f \in env.faults \cap {"none", "publish"} :
        LET tool_call == toolCalls[callIdx]
            j == JsonLoads(tool_call.arguments)
            e == Emit(Event("tool_call", tool_call.name, tool_call.id, 0), f = "publish")
        IN  IF j.raises \/ e.raised
            THEN /\ pc' = "except"
                 /\ exc' = IF j.raises THEN JsonFailed ELSE e.exc
                 /\ UNCHANGED events
            ELSE /\ pc' = "execute"
                 /\ events' = e.events
                 /\ UNCHANGED exc
    /\ UNCHANGED <<invocations, cleanVars, busVars, dbVars, jobVars, sessStatus, pending, loopVars, agentVars,
                   messages, collabCalls, lastExec, result>>

\* lines 384-390: execute the call, append the tool-result turn
ExecuteTool(env) ==
    /\ pc = "execute"
    /\ \E o \in env.outcomes :
        LET tool_call == toolCalls[callIdx]
            tool_args == JsonLoads(tool_call.arguments).value
            st == [searched_queries |-> searched_queries,
                   analyzed_sections |-> analyzed_sections,
                   proposed_edits |-> proposed_edits,
                   pending |-> pending,
                   nextId |-> Len(suggestions) + Len(pending) + 1,
                   events |-> events,
                   collabCalls |-> collabCalls,
                   publisher |-> mode]
            x == Execute(tool_call.name, tool_args, o, st)
            last == callIdx = Len(toolCalls)
        IN  /\ lastExec' = [tool |-> tool_call.name, args |-> tool_args,
                            validation |-> validate_tool_args(tool_call.name, tool_args).raises,
                            raised |-> x.raised, ret |-> x.ret, fault |-> o.fault]
            /\ searched_queries' = x.st.searched_queries
            /\ analyzed_sections' = x.st.analyzed_sections
            /\ proposed_edits' = x.st.proposed_edits
            /\ pending' = x.st.pending
            /\ events' = x.st.events
            /\ collabCalls' = x.st.collabCalls
            /\ IF x.raised
               THEN /\ pc' = "except"
                    /\ exc' = x.exc
                    /\ UNCHANGED <<messages, iteration, callIdx>>
               ELSE /\ UNCHANGED exc
                    /\ messages' = Append(messages,
                                          Turn("tool", tool_call.id, <<>>, x.ret))
                    /\ callIdx' = IF last THEN callIdx ELSE callIdx + 1
                    /\ iteration' = IF last THEN iteration + 1 ELSE iteration
                    /\ pc' = IF ~last THEN "announce"
                             ELSE IF LoopContinues(iteration + 1) THEN "complete"
                             ELSE "commit1"
    /\ UNCHANGED <<invocations, cleanVars, busVars, dbVars, jobVars, sessStatus, toolCalls, completions, result>>

\* line 393: commit any pending changes
CommitPending(env) ==
    /\ pc = "commit1"
    /\ \E f \in env.faults \cap {"none", "db"} :
        IF f = "db"
        THEN /\ pc' = "except"
             /\ pending' = <<>>
             /\ sessStatus' = dbStatus
             /\ exc' = DbFailed
             /\ UNCHANGED dbVars
        ELSE /\ pc' = "commit2"
             /\ suggestions' = suggestions \o pending
             /\ pending' = <<>>
             /\ dbStatus' = sessStatus
             /\ UNCHANGED <<sessStatus, dbError, dbMessage, exc>>
    /\ UNCHANGED <<invocations, cleanVars, busVars, jobVars, loopVars, agentVars, messages, events, collabCalls,
                   lastExec, result>>

\* lines 396-399 with the commit of line 399 left out: the status is set on
\* the session's object only and the completed event follows at once
MarkCompletedNoCommit(env) ==
    /\ pc = "commit2"
    /\ pc' = "completed"
    /\ sessStatus' = "completed"
    /\ UNCHANGED <<invocations, cleanVars, busVars, dbVars, jobVars, pending, loopVars, agentVars,
                   messages, events, exc, collabCalls, lastExec, result>>

\* lines 396-399: status = COMPLETED, commit
MarkCompleted(env) ==
    /\ pc = "commit2"
    /\ \E f \in env.faults \cap {"none", "db"} :
        IF f = "db"
        THEN /\ pc' = "except"
             /\ sessStatus' = dbStatus
             /\ exc' = DbFailed
             /\ UNCHANGED <<dbStatus, dbMessage>>
        ELSE /\ pc' = "completed"
             /\ sessStatus' = "completed"
             /\ dbStatus' = "completed"
             /\ dbMessage' = CompletedMessage(proposed_edits)
             /\ UNCHANGED exc
    /\ UNCHANGED <<invocations, cleanVars, busVars, dbError, suggestions, jobVars, pending, loopVars, agentVars,
                   messages, events, collabCalls, lastExec, result>>

\* lines 402-413: the completed event, the result
EmitCompleted(env) ==
    /\ pc = "completed"
    /\ \E f \in env.faults \cap {"none", "publish"} :
        LET e == Emit(Event("completed", "", NoCall, Len(proposed_edits)), f = "publish")
        IN  IF e.raised
            THEN /\ pc' = "except"
                 /\ exc' = e.exc
                 /\ UNCHANGED <<events, result>>
            ELSE /\ pc' = "returned"
                 /\ events' = e.events
                 /\ result' = CompletedResult(Stats)
                 /\ UNCHANGED exc
    /\ UNCHANGED <<invocations, cleanVars, busVars, dbVars, jobVars, sessStatus, pending, loopVars, agentVars,
                   messages, collabCalls, lastExec>>

\* lines 415-420: except Exception: status = FAILED, commit
MarkFailed(env) ==
    /\ pc = "except"
    /\ \E f \in env.faults \cap {"none", "db"} :
        IF f = "db"
        THEN /\ pc' = "raised"
             /\ pending' = <<>>
             /\ sessStatus' = dbStatus
             /\ exc' = DbFailed
             /\ UNCHANGED dbVars
        ELSE /\ pc' = "error"
             /\ sessStatus' = "failed"
             /\ dbStatus' = "failed"
             /\ dbError' = exc
             /\ UNCHANGED dbMessage
             /\ suggestions' = suggestions \o pending
             /\ pending' = <<>>
             /\ UNCHANGED exc
    /\ UNCHANGED <<invocations, cleanVars, busVars, jobVars, loopVars, agentVars, messages, events, collabCalls,
                   lastExec, result>>

\* lines 422-428: the error event, the failure result
EmitError(env) ==
    /\ pc = "error"
    /\ \E f \in env.faults \cap {"none", "publish"} :
        LET e == Emit(Event("error", "", NoCall, 0), f = "publish")
        IN  IF e.raised
            THEN /\ pc' = "raised"
                 /\ exc' = e.exc
                 /\ UNCHANGED <<events, result>>
            ELSE /\ pc' = "returned"
                 /\ events' = e.events
                 /\ result' = FailedResult(exc)
                 /\ UNCHANGED exc
    /\ UNCHANGED <<invocations, cleanVars, busVars, dbVars, jobVars, sessStatus, pending, loopVars, agentVars,
                   messages, collabCalls, lastExec>>

-----------------------------------------------------------------------------
(* One invocation of process on a Pending run, started inline ("direct")    *)
(* or by a worker ("celery"), with every tool call and every failure.       *)

InitTools ==
    /\ dbStatus = "pending"
    /\ dbError = NoError
    /\ dbMessage = NoCount
    /\ suggestions = <<>>
    /\ mode \in {"direct", "celery"}
    /\ job = "none"
    /\ retries = 0
    /\ pc = "load"
    /\ FreshInvocation

NextTools ==
    \/ Load(ToolsEnv)
    \/ MarkProcessing(ToolsEnv)
    \/ EmitProcessing(ToolsEnv)
    \/ Complete(ToolsEnv)
    \/ Announce(ToolsEnv)
    \/ ExecuteTool(ToolsEnv)
    \/ CommitPending(ToolsEnv)
    \/ MarkCompleted(ToolsEnv)
    \/ EmitCompleted(ToolsEnv)
    \/ MarkFailed(ToolsEnv)
    \/ EmitError(ToolsEnv)

SpecTools == InitTools /\ [][NextTools]_vars

(* One invocation with a completion service that keeps requesting tool      *)
(* calls, and collaborators that never fail.                                *)

\* nothing raises in this environment: the except branch has no step here
NextLoop ==
    \/ Load(LoopEnv)
    \/ MarkProcessing(LoopEnv)
    \/ EmitProcessing(LoopEnv)
    \/ Complete(LoopEnv)
    \/ Announce(LoopEnv)
    \/ ExecuteTool(LoopEnv)
    \/ CommitPending(LoopEnv)
    \/ MarkCompleted(LoopEnv)
    \/ EmitCompleted(LoopEnv)

SpecLoop == InitTools /\ [][NextLoop]_vars

(* One invocation whose completion service requests a single tool call,     *)
(* drawn from every call and every outcome: ToolExecutor.execute applied    *)
(* to each input.                                                           *)

NextExec ==
    \/ Load(ExecEnv)
    \/ MarkProcessing(ExecEnv)
    \/ EmitProcessing(ExecEnv)
    \/ Complete(ExecEnv)
    \/ Announce(ExecEnv)
    \/ ExecuteTool(ExecEnv)
    \/ CommitPending(ExecEnv)
    \/ MarkCompleted(ExecEnv)
    \/ EmitCompleted(ExecEnv)
    \/ MarkFailed(ExecEnv)
    \/ EmitError(ExecEnv)

SpecExec == InitTools /\ [][NextExec]_vars

(* One invocation in which the completion service may raise at any call and *)
(* every other collaborator works.  process is a coroutine whose awaits     *)
(* return, so it keeps taking steps until it returns: weak fairness.        *)

NextLlm ==
    \/ Load(LlmEnv)
    \/ MarkProcessing(LlmEnv)
    \/ EmitProcessing(LlmEnv)
    \/ Complete(LlmEnv)
    \/ Announce(LlmEnv)
    \/ ExecuteTool(LlmEnv)
    \/ CommitPending(LlmEnv)
    \/ MarkCompleted(LlmEnv)
    \/ EmitCompleted(LlmEnv)
    \/ MarkFailed(LlmEnv)
    \/ EmitError(LlmEnv)

SpecLlm == InitTools /\ [][NextLlm]_vars /\ WF_vars(NextLlm)

-----------------------------------------------------------------------------
(* The life of one run: the endpoints that start process, the worker's job, *)
(* its retry and failure hook, and deletion. Invocations follow one another.*)

\* no invocation of process is in flight and no job is unfinished
Quiet ==
    /\ pc \in {"idle", "returned", "raised", "killed", "cancelled"}
    /\ job \in {"none", "succeeded", "failed", "lost"}

\* a new QueryOrchestrator and AgentState for the run, published through m
StartInvocation(m) ==
    /\ mode' = m
    /\ pc' = "load"
    /\ sessStatus' = "none"
    /\ pending' = <<>>
    /\ iteration' = 0
    /\ toolCalls' = <<>>
    /\ callIdx' = 0
    /\ searched_queries' = <<>>
    /\ analyzed_sections' = {}
    /\ proposed_edits' = <<>>
    /\ messages' = <<>>
    /\ events' = <<>>
    /\ completions' = 0
    /\ collabCalls' = 0
    /\ lastExec' = NoExec
    /\ result' = NoResult
    /\ exc' = NoError

\* the endpoints' guard: query.status not in (PENDING, FAILED) -> 400
Startable(status) == status \in {"pending", "failed"}

\* POST /{query_id}/process/stream; a rejected request (404, 400) changes nothing
ProcessQueryStream ==
    /\ Quiet
    /\ Startable(dbStatus)
    /\ \E use_celery \in BOOLEAN :
        /\ StartInvocation(IF use_celery THEN "celery" ELSE "direct")
        /\ job' = IF use_celery THEN "running" ELSE "none"
    /\ retries' = 0
    /\ UNCHANGED <<invocations, cleanVars, busVars, dbVars>>

\* POST /{query_id}/process
ProcessQueryCelery ==
    /\ Quiet
    /\ Startable(dbStatus)
    /\ StartInvocation("celery")
    /\ job' = "running"
    /\ retries' = 0
    /\ UNCHANGED <<invocations, cleanVars, busVars, dbVars>>

\* process_query_async after process: DBSessionContext.__aexit__ commits, or
\* rolls back on an exception; emitter.close() swallows its errors
JobExit(env) ==
    /\ job = "running"
    /\ pc \in {"returned", "raised"}
    /\ \E f \in env.faults \cap {"none", "db"} :
        /\ job' = IF pc = "raised" \/ f = "db" THEN "raised" ELSE "succeeded"
        /\ exc' = IF pc = "returned" /\ f = "db" THEN DbFailed ELSE exc
    /\ UNCHANGED <<invocations, cleanVars, busVars, dbVars, mode, retries, pc, sessStatus, pending, loopVars,
                   agentVars, messages, events, collabCalls, lastExec, result>>

\* a retry policy that allows one attempt more
JobRetryOnceMore ==
    /\ job = "raised"
    /\ retries <= max_retries
    /\ retries' = retries + 1
    /\ job' = "running"
    /\ StartInvocation(mode)
    /\ UNCHANGED <<invocations, cleanVars, busVars, dbVars>>

\* the job raised and is run again (task_autoretry_for, max_retries)
JobRetry ==
    /\ job = "raised"
    /\ retries < max_retries
    /\ retries' = retries + 1
    /\ job' = "running"
    /\ StartInvocation(mode)
    /\ UNCHANGED <<invocations, cleanVars, busVars, dbVars>>

\* a failure hook that marks the run and leaves its error_message alone
OnFailureKeepsError(env) ==
    /\ job = "raised"
    /\ job' = "failed"
    /\ \E f \in env.faults \cap {"none", "db"} :
        dbStatus' = IF f = "db" \/ dbStatus = "absent" THEN dbStatus ELSE "failed"
    /\ UNCHANGED <<invocations, cleanVars, busVars, dbError, dbMessage, suggestions, mode, retries, pc, sessStatus,
                   pending, loopVars, agentVars, messages, events, collabCalls,
                   lastExec, result, exc>>

\* QueryProcessingTask.on_failure -> _mark_query_failed
OnFailure(env) ==
    /\ job = "raised"
    /\ job' = "failed"
    /\ \E f \in env.faults \cap {"none", "db"} :
        /\ dbStatus' = IF f = "db" \/ dbStatus = "absent" THEN dbStatus ELSE "failed"
        /\ dbError' = IF f = "db" \/ dbStatus = "absent" THEN dbError ELSE exc
    /\ UNCHANGED <<invocations, cleanVars, busVars, dbMessage, suggestions, mode, retries, pc, sessStatus, pending,
                   loopVars, agentVars, messages, events, collabCalls, lastExec,
                   result, exc>>

\* process has started and has neither returned nor raised
InFlight == pc \notin {"idle", "returned", "raised", "killed", "cancelled"}

\* the worker process is killed while the job runs process: no handler runs,
\* the connection drops and the database discards the open transaction, so
\* rows that were flushed and not committed are gone
WorkerKilled ==
    /\ job = "running"
    /\ InFlight
    /\ pc' = "killed"
    /\ job' = "lost"
    /\ pending' = <<>>
    /\ UNCHANGED <<invocations, cleanVars, busVars, dbVars, mode, retries, sessStatus, loopVars, agentVars, messages,
                   events, collabCalls, lastExec, result, exc>>

\* DELETE /{query_id}, between invocations or while the job waits in the queue
DeleteQuery ==
    /\ dbStatus # "absent"
    /\ Quiet \/ (pc = "load" /\ mode = "celery")
    /\ dbStatus' = "absent"
    /\ dbError' = NoError
    /\ dbMessage' = NoCount
    /\ suggestions' = <<>>
    /\ UNCHANGED <<invocations, cleanVars, busVars, jobVars, pc, sessStatus, pending, loopVars, agentVars, messages,
                   events, collabCalls, lastExec, result, exc>>

Init ==
    /\ dbStatus = "pending"
    /\ dbError = NoError
    /\ dbMessage = NoCount
    /\ suggestions = <<>>
    /\ mode = "none"
    /\ job = "none"
    /\ retries = 0
    /\ pc = "idle"
    /\ FreshInvocation

Next ==
    \/ ProcessQueryStream
    \/ ProcessQueryCelery
    \/ Load(LifeEnv)
    \/ MarkProcessing(LifeEnv)
    \/ EmitProcessing(LifeEnv)
    \/ Complete(LifeEnv)
    \/ Announce(LifeEnv)
    \/ ExecuteTool(LifeEnv)
    \/ CommitPending(LifeEnv)
    \/ MarkCompleted(LifeEnv)
    \/ EmitCompleted(LifeEnv)
    \/ MarkFailed(LifeEnv)
    \/ EmitError(LifeEnv)
    \/ JobExit(LifeEnv)
    \/ JobRetry
    \/ OnFailure(LifeEnv)
    \/ WorkerKilled
    \/ DeleteQuery

Spec == Init /\ [][Next]_vars

\* the job of a run whose database answers when the failure hook runs; the
\* worker calls on_failure once the job has raised and is not retried
HandlerEnv == [LifeEnv EXCEPT !.faults = {"none"}]

NextJob ==
    \/ ProcessQueryStream
    \/ ProcessQueryCelery
    \/ Load(LifeEnv)
    \/ MarkProcessing(LifeEnv)
    \/ EmitProcessing(LifeEnv)
    \/ Complete(LifeEnv)
    \/ Announce(LifeEnv)
    \/ ExecuteTool(LifeEnv)
    \/ CommitPending(LifeEnv)
    \/ MarkCompleted(LifeEnv)
    \/ EmitCompleted(LifeEnv)
    \/ MarkFailed(LifeEnv)
    \/ EmitError(LifeEnv)
    \/ JobExit(LifeEnv)
    \/ JobRetry
    \/ OnFailure(HandlerEnv)
    \/ WorkerKilled
    \/ DeleteQuery

SpecJob == Init /\ [][NextJob]_vars /\ WF_vars(OnFailure(HandlerEnv))

-----------------------------------------------------------------------------
(* app/services/event_service.py: the two event buses of a run.  The same   *)
(* publish and close calls are made on a DirectEventPublisher and on a      *)
(* RedisEventPublisher; DirectEventPublisher.events() consumes the queue,   *)
(* a RedisEventSubscriber the stream.  An action takes env:                 *)
(*   env.events  the most publish calls made                                *)
(*   env.close   whether close is ever called                               *)
(*   env.faults  what an XREAD may do: "none", "read" (it raises)           *)
(*   env.clock   whether waiting takes measurable time                      *)

EventTypes == {"status", "tool_call", "search_complete", "suggestion",
               "completed", "error", "heartbeat"}

QueryEvent(event, data) == [event |-> event, data |-> data, query_id |-> "q-1"]

\* the i-th event the emitter publishes
BusEvent(i) ==
    QueryEvent(<<"status", "tool_call", "search_complete">>[(i % 3) + 1], [n |-> i])

\* the stream-end sentinel of close
Sentinel == QueryEvent("completed", [stream_end |-> TRUE])

HeartbeatEvent == QueryEvent("heartbeat", [n |-> 0])
TimeoutEvent == QueryEvent("error", [error |-> "Event stream timeout"])

\* a mutant of IsStreamEnd: no event is taken for the sentinel
IsStreamEndNever(ev) == FALSE

\* event.data.get("_stream_end")
IsStreamEnd(ev) == Has(ev.data, "stream_end") /\ ev.data.stream_end

\* QueryEvent.to_json: the text of the object {event, data, query_id}
ToJson(ev) == Obj([event |-> ev.event, data |-> ev.data, query_id |-> ev.query_id])

\* a mutant of FromJson: the payload is not restored
FromJsonNoData(text) ==
    LET parsed == JsonLoads(text)
    IN  IF parsed.raises \/ ~IsMapping(parsed.value) THEN [raises |-> TRUE, event |-> Sentinel]
        ELSE [raises |-> FALSE,
              event |-> [event |-> parsed.value.bag.event, data |-> [n |-> 0],
                         query_id |-> parsed.value.bag.query_id]]

\* QueryEvent.from_json: json.loads, EventType(parsed["event"]), the fields
FromJson(text) ==
    LET parsed == JsonLoads(text)
    IN  IF parsed.raises \/ ~IsMapping(parsed.value)
        THEN [raises |-> TRUE, event |-> Sentinel]
        ELSE IF parsed.value.bag.event \notin EventTypes
        THEN [raises |-> TRUE, event |-> Sentinel]
        ELSE [raises |-> FALSE,
              event |-> [event |-> parsed.value.bag.event,
                         data |-> parsed.value.bag.data,
                         query_id |-> parsed.value.bag.query_id]]

\* redis.xadd(stream_name, {"event": event_json}, maxlen=STREAM_MAX_LEN): the
\* entry gets the next id, the oldest entries beyond the cap are evicted
XAdd(entries, event_json) ==
    LET id == IF entries = <<>> THEN 1 ELSE entries[Len(entries)].id + 1
        all == Append(entries, [id |-> id, event |-> event_json])
    IN  IF Len(all) > STREAM_MAX_LEN
        THEN SubSeq(all, Len(all) - STREAM_MAX_LEN + 1, Len(all))
        ELSE all

\* a mutant of XRead: the read starts at the cursor's entry, not after it
XReadFromCursor(entries, cursor) ==
    LET newer == SelectSeq(entries, LAMBDA m : m.id >= cursor)
    IN  SubSeq(newer, 1, Min(XREAD_COUNT, Len(newer)))

\* redis.xread({stream_name: last_id}, count=10): the first entries after the cursor
XRead(entries, cursor) ==
    LET newer == SelectSeq(entries, LAMBDA m : m.id > cursor)
    IN  SubSeq(newer, 1, Min(XREAD_COUNT, Len(newer)))

\* a mutant of StartCursor: the subscriber starts at the newest entry ("$")
StartCursorLatest == IF stream = <<>> THEN 0 ELSE stream[Len(stream)].id

\* self._last_id = "0": the subscriber starts at the beginning of the stream
StartCursor == 0

\* publisher.publish(event) on both publishers
BusPublish(env) ==
    /\ Len(published) + late < env.events
    /\ LET ev == BusEvent(Len(published) + late + 1)
       IN  /\ queue' = IF closed THEN queue ELSE Append(queue, ev)
           /\ stream' = XAdd(stream, ToJson(ev))
           /\ published' = IF closed THEN published ELSE Append(published, ev)
           /\ late' = IF closed THEN late + 1 ELSE late
    /\ UNCHANGED <<invocations, cleanVars, procVars, closed, yieldedDirect, directDone, subPc, last_id, batch,
                   yieldedRedis, elapsed, last_heartbeat>>

\* publisher.close() on both publishers: the sentinel
BusClose(env) ==
    /\ env.close
    /\ ~closed
    /\ closed' = TRUE
    /\ queue' = Append(queue, Sentinel)
    /\ stream' = XAdd(stream, ToJson(Sentinel))
    /\ UNCHANGED <<invocations, cleanVars, procVars, published, late, yieldedDirect, directDone, subPc, last_id,
                   batch, yieldedRedis, elapsed, last_heartbeat>>

\* DirectEventPublisher.events(): one get from the queue
DirectGet ==
    /\ ~directDone
    /\ queue # <<>>
    /\ queue' = Tail(queue)
    /\ IF IsStreamEnd(Head(queue))
       THEN directDone' = TRUE /\ UNCHANGED yieldedDirect
       ELSE yieldedDirect' = Append(yieldedDirect, Head(queue)) /\ UNCHANGED directDone
    /\ UNCHANGED <<invocations, cleanVars, procVars, published, late, closed, stream, subPc, last_id, batch,
                   yieldedRedis, elapsed, last_heartbeat>>

\* RedisEventSubscriber(query_id, timeout) and the start of its events()
Subscribe ==
    /\ subPc = "none"
    /\ subPc' = "loop"
    /\ last_id' = StartCursor
    /\ elapsed' = 0
    /\ last_heartbeat' = 0
    /\ UNCHANGED <<invocations, cleanVars, procVars, published, late, closed, queue, yieldedDirect, directDone,
                   stream, batch, yieldedRedis>>

\* a mutant of TimeoutCheck: the subscriber ends without the error event
TimeoutCheckSilent ==
    /\ subPc = "loop"
    /\ elapsed > SubscriberTimeout
    /\ subPc' = "done"
    /\ UNCHANGED <<invocations, cleanVars, procVars, published, late, closed, queue, yieldedDirect, directDone,
                   stream, last_id, batch, yieldedRedis, elapsed, last_heartbeat>>

\* lines 419-426: the budget is exceeded: the timeout error, then the end
TimeoutCheck ==
    /\ subPc = "loop"
    /\ elapsed > SubscriberTimeout
    /\ yieldedRedis' = Append(yieldedRedis, TimeoutEvent)
    /\ subPc' = "done"
    /\ UNCHANGED <<invocations, cleanVars, procVars, published, late, closed, queue, yieldedDirect, directDone,
                   stream, last_id, batch, elapsed, last_heartbeat>>

\* lines 428-451 without the test of line 444: every read that returns
\* nothing yields a heartbeat
ReadStreamEagerHeartbeat(env) ==
    /\ subPc = "loop"
    /\ elapsed <= SubscriberTimeout
    /\ LET entries == XRead(stream, last_id)
           waited == IF env.clock THEN elapsed + XREAD_BLOCK ELSE elapsed
       IN  IF entries = <<>>
           THEN /\ elapsed' = waited
                /\ yieldedRedis' = Append(yieldedRedis, HeartbeatEvent)
                /\ last_heartbeat' = waited
                /\ UNCHANGED <<batch, subPc>>
           ELSE /\ batch' = entries
                /\ subPc' = "batch"
                /\ UNCHANGED <<elapsed, yieldedRedis, last_heartbeat>>
    /\ UNCHANGED <<invocations, cleanVars, procVars, published, late, closed, queue, yieldedDirect, directDone,
                   stream, last_id>>

\* lines 428-449: one XREAD; a failing read sleeps, an empty one may yield a
\* heartbeat
ReadStream(env) ==
    /\ subPc = "loop"
    /\ elapsed <= SubscriberTimeout
    /\ \E f \in env.faults :
        LET entries == XRead(stream, last_id)
            slept == IF env.clock THEN elapsed + RETRY_SLEEP ELSE elapsed
            waited == IF env.clock THEN elapsed + XREAD_BLOCK ELSE elapsed
        IN  IF f = "read"
            THEN /\ elapsed' = slept
                 /\ UNCHANGED <<batch, subPc, yieldedRedis, last_heartbeat>>
            ELSE IF entries = <<>>
            THEN /\ elapsed' = waited
                 /\ IF waited - last_heartbeat >= heartbeat_interval
                    THEN /\ yieldedRedis' = Append(yieldedRedis, HeartbeatEvent)
                         /\ last_heartbeat' = waited
                    ELSE UNCHANGED <<yieldedRedis, last_heartbeat>>
                 /\ UNCHANGED <<batch, subPc>>
            ELSE /\ batch' = entries
                 /\ subPc' = "batch"
                 /\ UNCHANGED <<elapsed, yieldedRedis, last_heartbeat>>
    /\ UNCHANGED <<invocations, cleanVars, procVars, published, late, closed, queue, yieldedDirect, directDone,
                   stream, last_id>>

\* lines 455-472: the next entry of the batch: cursor, parse, sentinel or yield
Consume ==
    /\ subPc = "batch"
    /\ LET m == Head(batch)
           parsed == FromJson(m.event)
       IN  /\ last_id' = m.id
           /\ batch' = Tail(batch)
           /\ IF parsed.raises
              THEN /\ subPc' = IF Tail(batch) = <<>> THEN "loop" ELSE "batch"
                   /\ UNCHANGED yieldedRedis
              ELSE IF IsStreamEnd(parsed.event)
              THEN /\ subPc' = "done"
                   /\ UNCHANGED yieldedRedis
              ELSE /\ yieldedRedis' = Append(yieldedRedis, parsed.event)
                   /\ subPc' = IF Tail(batch) = <<>> THEN "loop" ELSE "batch"
    /\ UNCHANGED <<invocations, cleanVars, procVars, published, late, closed, queue, yieldedDirect, directDone,
                   stream, elapsed, last_heartbeat>>

\* the run of the orchestrator is not part of these specifications
InitBus ==
    /\ dbStatus = "pending"
    /\ dbError = NoError
    /\ dbMessage = NoCount
    /\ suggestions = <<>>
    /\ mode = "none"
    /\ job = "none"
    /\ retries = 0
    /\ pc = "idle"
    /\ FreshInvocation

\* publishers that are closed in the end, reads that work, no timeout
BusEnv == [events |-> MaxEvents, close |-> TRUE, faults |-> {"none"}, clock |-> FALSE]

NextBus ==
    \/ BusPublish(BusEnv)
    \/ BusClose(BusEnv)
    \/ DirectGet
    \/ Subscribe
    \/ ReadStream(BusEnv)
    \/ Consume

SpecBus == InitBus /\ [][NextBus]_vars

\* a worker that never closes the stream, reads that may fail, time that passes
OpenEnv == [events |-> MaxOpenEvents, close |-> FALSE, faults |-> {"none", "read"},
            clock |-> TRUE]

\* events() runs as long as its consumer iterates it: weak fairness on its steps
NextOpen ==
    \/ BusPublish(OpenEnv)
    \/ Subscribe
    \/ ReadStream(OpenEnv)
    \/ Consume
    \/ TimeoutCheck

SpecOpen ==
    /\ InitBus
    /\ [][NextOpen]_vars
    /\ WF_vars(ReadStream(OpenEnv))
    /\ WF_vars(Consume)
    /\ WF_vars(TimeoutCheck)

-----------------------------------------------------------------------------
(* Several attempts on one run: each attempt has a publisher and a           *)
(* subscriber of its own, and all of them name the stream                   *)
(* 'query_stream:<query_id>'.                                               *)

\* each attempt publishes a few events and closes; reads work
RetryEnv == [BusEnv EXCEPT !.events = MaxOpenEvents]

\* The run is processed again after the earlier attempt has closed its
\* publisher: process_query_stream accepts the Failed run and
\* _stream_from_celery constructs RedisEventSubscriber(query_id), whose cursor
\* is "0", before it queues the job; the job constructs a new
\* RedisEventPublisher(query_id).  Nothing deletes or trims the stream: the
\* entries of the earlier attempt stay (close_sync lets them expire an hour
\* later).
Reattempt ==
    /\ closed
    /\ subPc \in {"none", "done"}
    /\ Cardinality({ i \in DOMAIN stream : ~FromJson(stream[i].event).raises
                        /\ IsStreamEnd(FromJson(stream[i].event).event) }) < MaxAttempts
    /\ published' = <<>>
    /\ late' = 0
    /\ closed' = FALSE
    /\ queue' = <<>>
    /\ yieldedDirect' = <<>>
    /\ directDone' = FALSE
    /\ subPc' = "none"
    /\ last_id' = StartCursor
    /\ batch' = <<>>
    /\ yieldedRedis' = <<>>
    /\ elapsed' = 0
    /\ last_heartbeat' = 0
    /\ UNCHANGED <<invocations, cleanVars, procVars, stream>>

NextRetry ==
    \/ BusPublish(RetryEnv)
    \/ BusClose(RetryEnv)
    \/ DirectGet
    \/ Subscribe
    \/ ReadStream(RetryEnv)
    \/ Consume
    \/ Reattempt

SpecRetry == InitBus /\ [][NextRetry]_vars

-----------------------------------------------------------------------------
(* One request to process the run and the one execution it starts, with the *)
(* publisher that execution closes and the consumer of its events:          *)
(* process_query_async._process and, in direct mode, event_generator of     *)
(* _stream_direct with run_orchestrator.  Here the bus carries the          *)
(* stream-end sentinel of the execution.                                    *)

\* the first request to process the run
FirstRequest ==
    /\ pc = "idle"
    /\ ProcessQueryStream \/ ProcessQueryCelery

\* a job exit that closes the emitter only when process has returned
JobExitCloseOnReturn ==
    /\ job = "running"
    /\ pc \in {"returned", "raised"}
    /\ \E f \in LifeEnv.faults \cap {"none", "db"} :
        /\ job' = IF pc = "raised" \/ f = "db" THEN "raised" ELSE "succeeded"
        /\ exc' = IF pc = "returned" /\ f = "db" THEN DbFailed ELSE exc
    /\ closed' = (closed \/ pc = "returned")
    /\ stream' = IF pc = "returned" THEN XAdd(stream, ToJson(Sentinel)) ELSE stream
    /\ UNCHANGED <<invocations, cleanVars, dbVars, mode, retries, pc, sessStatus, pending,
                   loopVars, agentVars, messages, events, collabCalls, lastExec, result,
                   published, late, queue, yieldedDirect, directDone, subPc, last_id,
                   batch, yieldedRedis, elapsed, last_heartbeat>>

\* process_query_async._process after process: DBSessionContext.__aexit__,
\* then finally: emitter.close(), which appends the sentinel to the stream
JobExitClose ==
    /\ job = "running"
    /\ pc \in {"returned", "raised"}
    /\ \E f \in LifeEnv.faults \cap {"none", "db"} :
        /\ job' = IF pc = "raised" \/ f = "db" THEN "raised" ELSE "succeeded"
        /\ exc' = IF pc = "returned" /\ f = "db" THEN DbFailed ELSE exc
    /\ closed' = TRUE
    /\ stream' = XAdd(stream, ToJson(Sentinel))
    /\ UNCHANGED <<invocations, cleanVars, dbVars, mode, retries, pc, sessStatus, pending,
                   loopVars, agentVars, messages, events, collabCalls, lastExec, result,
                   published, late, queue, yieldedDirect, directDone, subPc, last_id,
                   batch, yieldedRedis, elapsed, last_heartbeat>>

\* run_orchestrator after process: finally: emitter.close(), which puts the
\* sentinel on the queue
DirectExit ==
    /\ mode = "direct"
    /\ pc \in {"returned", "raised"}
    /\ ~closed
    /\ closed' = TRUE
    /\ queue' = Append(queue, Sentinel)
    /\ UNCHANGED <<invocations, cleanVars, procVars, published, late, yieldedDirect,
                   directDone, stream, subPc, last_id, batch, yieldedRedis, elapsed,
                   last_heartbeat>>

\* event_generator, finally: the consumer of the SSE response stops iterating
\* while the task runs: task.cancel() raises CancelledError at the await process
\* is at, which except Exception does not catch; run_orchestrator closes the
\* emitter and the task is awaited.  The rows flushed in the session are
\* committed or discarded when the request's session ends
Cancel ==
    /\ mode = "direct"
    /\ InFlight
    /\ ~directDone
    /\ pc' = "cancelled"
    /\ directDone' = TRUE
    /\ closed' = TRUE
    /\ queue' = Append(queue, Sentinel)
    /\ pending' = <<>>
    /\ \E kept \in BOOLEAN :
        suggestions' = IF kept THEN suggestions \o pending ELSE suggestions
    /\ UNCHANGED <<invocations, cleanVars, dbStatus, dbError, dbMessage, jobVars, sessStatus,
                   loopVars, agentVars, messages, events, collabCalls, lastExec, result,
                   exc, published, late, yieldedDirect, stream, subPc, last_id, batch,
                   yieldedRedis, elapsed, last_heartbeat>>

NextAttempt ==
    \/ FirstRequest
    \/ Load(LifeEnv)
    \/ MarkProcessing(LifeEnv)
    \/ EmitProcessing(LifeEnv)
    \/ Complete(LifeEnv)
    \/ Announce(LifeEnv)
    \/ ExecuteTool(LifeEnv)
    \/ CommitPending(LifeEnv)
    \/ MarkCompleted(LifeEnv)
    \/ EmitCompleted(LifeEnv)
    \/ MarkFailed(LifeEnv)
    \/ EmitError(LifeEnv)
    \/ JobExitClose
    \/ DirectExit
    \/ Cancel
    \/ OnFailure(LifeEnv)
    \/ DeleteQuery
    \/ Subscribe
    \/ ReadStream(BusEnv)
    \/ Consume
    \/ DirectGet

\* the worker runs the job to its exit, the task of run_orchestrator runs to
\* its end, and the consumers keep iterating events()
SpecAttempt ==
    /\ Init
    /\ [][NextAttempt]_vars
    /\ WF_vars(JobExitClose)
    /\ WF_vars(DirectExit)
    /\ WF_vars(ReadStream(BusEnv))
    /\ WF_vars(Consume)
    /\ WF_vars(DirectGet)

-----------------------------------------------------------------------------
(* app/tasks/query_tasks.py: cleanup_old_queries, run daily by the beat      *)
(* schedule, next to the requests and jobs that create runs and write their *)
(* status.  Each of them commits in a transaction of its own.               *)

\* a change of the table: what an execution under way has selected is stale,
\* and an execution to come no longer repeats a completed one
Touched ==
    /\ cleanedAt' = {}
    /\ cleanPc' = IF cleanPc = "idle" THEN "idle" ELSE "stale"

\* POST /queries: a Pending run created now
CreateQuery ==
    /\ \E i \in 1..MaxRuns :
        /\ queries[i].status = "absent"
        /\ queries' = [queries EXCEPT ![i] = [status |-> "pending", created_at |-> now]]
    /\ Touched
    /\ UNCHANGED <<invocations, procVars, busVars, now, cutoff_date, selected, deleted_count>>

\* the status writes of process: Processing on a run that was Pending or
\* Failed (lines 339-341), then Completed (396-399) or Failed (417-421)
SetStatus ==
    /\ \E i \in 1..MaxRuns :
        \E s \in CASE Startable(queries[i].status) -> {"processing"}
                  [] queries[i].status = "processing" -> {"completed", "failed"}
                  [] OTHER -> {} :
            queries' = [queries EXCEPT ![i].status = s]
    /\ Touched
    /\ UNCHANGED <<invocations, procVars, busVars, now, cutoff_date, selected, deleted_count>>

\* a day passes
Tick ==
    /\ now < MaxDay
    /\ now' = now + 1
    /\ UNCHANGED <<invocations, procVars, busVars, queries, cleanPc, cutoff_date, selected,
                   deleted_count, cleanedAt>>

\* lines 143-152: cutoff_date = utcnow() - timedelta(days=days_old) and the
\* select of the runs created before it whose status is COMPLETED or FAILED
CleanupSelect ==
    /\ cleanPc = "idle"
    /\ \E days_old \in 1..MaxDaysOld :
        LET cutoff == now - days_old IN
        /\ cutoff_date' = cutoff
        /\ selected' = { i \in 1..MaxRuns :
                            /\ queries[i].status \in {"completed", "failed"}
                            /\ queries[i].created_at < cutoff }
        /\ cleanPc' = IF cutoff \in cleanedAt THEN "reselected" ELSE "selected"
    /\ UNCHANGED <<invocations, procVars, busVars, queries, now, deleted_count, cleanedAt>>

\* lines 154-163: db.delete of every selected run, commit, and the result;
\* the rows are deleted by primary key.  A failing commit rolls back and the
\* task raises
CleanupCommit ==
    /\ cleanPc \in {"selected", "reselected", "stale"}
    /\ cleanPc' = "idle"
    /\ selected' = {}
    /\ \E f \in {"none", "db"} :
        IF f = "db"
        THEN /\ deleted_count' = NoCount
             /\ cleanedAt' = {}
             /\ UNCHANGED queries
        ELSE /\ queries' = [i \in 1..MaxRuns |->
                               IF i \in selected
                               THEN [status |-> "absent", created_at |-> 0]
                               ELSE queries[i]]
             /\ deleted_count' = Cardinality(selected)
             /\ cleanedAt' = IF cleanPc = "stale" THEN {} ELSE {cutoff_date}
    /\ UNCHANGED <<invocations, procVars, busVars, now, cutoff_date>>

NextClean ==
    \/ CreateQuery
    \/ SetStatus
    \/ Tick
    \/ CleanupSelect
    \/ CleanupCommit

SpecClean == Init /\ [][NextClean]_vars

-----------------------------------------------------------------------------
(* Several requests to process the same run.  A request is answered by the  *)
(* endpoint from the committed status; the invocation of process it starts  *)
(* writes the status later, in transactions of its own.                     *)

\* process_query_stream, process_query_celery: 400 unless the status is
\* PENDING or FAILED, else the orchestrator is started (in a task of the
\* request, or by queueing the job); the endpoint writes nothing
AcceptRequest ==
    /\ \E r \in 1..MaxRequests :
        /\ invocations[r] = "none"
        /\ dbStatus # "absent"
        /\ invocations' = [invocations EXCEPT
                              ![r] = IF Startable(dbStatus) THEN "load" ELSE "rejected"]
    /\ UNCHANGED <<procVars, busVars, cleanVars>>

\* process, lines 326-341: the run is loaded, set to PROCESSING whatever its
\* status is, and committed
BeginRun ==
    /\ \E r \in 1..MaxRequests :
        /\ invocations[r] = "load"
        /\ invocations' = [invocations EXCEPT ![r] = "loop"]
    /\ dbStatus' = "processing"
    /\ UNCHANGED <<busVars, cleanVars, dbError, dbMessage, suggestions, mode, job, retries,
                   pc, sessStatus, pending, loopVars, agentVars, messages, events,
                   collabCalls, lastExec, result, exc>>

\* process, lines 395-399 and 417-420: COMPLETED or FAILED is committed and
\* the invocation ends
EndRun ==
    /\ \E r \in 1..MaxRequests :
        /\ invocations[r] = "loop"
        /\ invocations' = [invocations EXCEPT ![r] = "ended"]
    /\ \E s \in {"completed", "failed"} : dbStatus' = s
    /\ UNCHANGED <<busVars, cleanVars, dbError, dbMessage, suggestions, mode, job, retries,
                   pc, sessStatus, pending, loopVars, agentVars, messages, events,
                   collabCalls, lastExec, result, exc>>

NextRace ==
    \/ AcceptRequest
    \/ BeginRun
    \/ EndRun

SpecRace == Init /\ [][NextRace]_vars

-----------------------------------------------------------------------------
(* Properties *)

Terminal == {"completed", "failed"}

ToolCallEvents(evs) == { j \in DOMAIN evs : evs[j].event = "tool_call" }
Announced(evs) == { evs[j].call : j \in ToolCallEvents(evs) }
ToolTurns(msgs) == { i \in DOMAIN msgs : msgs[i].role = "tool" }
AssistantTurns(msgs) == { i \in DOMAIN msgs : msgs[i].role = "assistant" }
Contains(msg, part) == \E i \in DOMAIN msg : msg[i] = part
IsError(ret) == "error" \in DOMAIN ret /\ ret.error # NoError
Rows == { suggestions[i] : i \in DOMAIN suggestions } \cup { pending[i] : i \in DOMAIN pending }

\* the call execute is about to be given
CurrentCall == toolCalls[callIdx]

\* C1: once the persisted status of the run is Completed or Failed, no later
\* write of process changes it to the other terminal value.
C1_TerminalNeverFlips ==
    [][ /\ (dbStatus = "completed" => dbStatus' # "failed")
        /\ (dbStatus = "failed" => dbStatus' # "completed") ]_vars

\* C2: an invocation of process that persisted Processing has persisted
\* Completed or Failed by the time it has returned or raised.
C2_NeverLeftProcessing ==
    pc \in {"returned", "raised"} => dbStatus # "processing"

\* C3: a run whose persisted status is Completed or Failed is never set to
\* Processing again.
C3_TerminalNeverReprocessed ==
    [][ (dbStatus \in Terminal) => (dbStatus' # "processing") ]_vars

\* C4: in one invocation of process the completion service is called at most
\* MAX_ITERATIONS (15) times.
C4_CompletionCallsBounded == completions <= MAX_ITERATIONS

C4_Witness == completions = MAX_ITERATIONS /\ pc = "returned"

\* 15 replies, each requesting at least one tool call, all executed
FullRun ==
    /\ iteration = MAX_ITERATIONS
    /\ Cardinality(AssistantTurns(messages)) = MAX_ITERATIONS
    /\ \A i \in AssistantTurns(messages) : messages[i].tool_calls # <<>>

\* C5: a run in which each of the 15 replies requests a tool call and no step
\* raises leaves the loop for the commits, is never Failed, and ends Completed
\* with a completed event and the result 'completed' carrying the counters.
C5_CeilingCompletes ==
    FullRun =>
        /\ pc \in {"commit1", "commit2", "completed", "returned"}
        /\ dbStatus # "failed"
        /\ pc = "returned" =>
              /\ dbStatus = "completed"
              /\ result = [status |-> "completed", error |-> NoError,
                           searches_performed |-> Len(searched_queries),
                           sections_analyzed |-> Cardinality(analyzed_sections),
                           suggestions_created |-> Len(proposed_edits)]
              /\ events[Len(events)] = Event("completed", "", NoCall, Len(proposed_edits))

C5_Witness ==
    /\ FullRun
    /\ pc = "returned"
    /\ result.status = "completed"
    /\ result.searches_performed >= MAX_ITERATIONS - 1
    /\ result.suggestions_created >= 1

\* C6: when the run has ended (Completed or Failed) there are as many
\* tool_call events as tool-result turns, and every tool-result turn carries
\* the id of a call that a tool_call event announced.
C6_ToolCallsMatchTurns ==
    dbStatus \in Terminal =>
        /\ Cardinality(ToolCallEvents(events)) = Cardinality(ToolTurns(messages))
        /\ \A i \in ToolTurns(messages) : messages[i].tool_call_id \in Announced(events)

C8_ValidationFailureTouchesNothing ==
    [][ (/\ pc = "execute"
         /\ validate_tool_args(CurrentCall.name, CurrentCall.arguments).raises
                = "ValueError") =>
          /\ ~lastExec'.raised
          /\ IsError(lastExec'.ret)
          /\ collabCalls' = collabCalls
          /\ events' = events
          /\ UNCHANGED <<searched_queries, analyzed_sections, proposed_edits, pending>>
      ]_vars

C8_Witness ==
    /\ lastExec.tool = "get_section_content"
    /\ lastExec.args.bag.section_id = "not-a-uuid"
    /\ lastExec.validation = "ValueError"
    /\ IsError(lastExec.ret)

\* C9: for a tool name outside the six, validate_tool_args raises
\* 'Unknown tool: <name>', execute returns an Error result whose message
\* contains 'Unknown tool', no handler runs, AgentState does not change, and
\* the call gets its tool-result turn.
C9_UnknownToolRejected ==
    [][ (pc = "execute" /\ CurrentCall.name \notin ToolNames) =>
          LET v == validate_tool_args(CurrentCall.name, CurrentCall.arguments)
          IN  /\ v.raises = "ValueError"
              /\ v.error = <<"Unknown tool", CurrentCall.name>>
              /\ ~lastExec'.raised
              /\ IsError(lastExec'.ret)
              /\ Contains(lastExec'.ret.error, "Unknown tool")
              /\ collabCalls' = collabCalls
              /\ events' = events
              /\ UNCHANGED <<searched_queries, analyzed_sections, proposed_edits, pending>>
              /\ messages' = Append(messages,
                                    Turn("tool", CurrentCall.id, <<>>, lastExec'.ret))
      ]_vars

C9_Witness ==
    /\ lastExec.tool = "drop_table"
    /\ Contains(lastExec.ret.error, "Unknown tool")
    /\ Cardinality(ToolTurns(messages)) = 1
    /\ collabCalls = 0

\* C10: every EditSuggestion row a propose_edit call flushed or committed has
\* a confidence between 0.0 and 1.0.
C10_ConfidenceInRange ==
    \A r \in Rows : r.confidence >= ConfidenceMin /\ r.confidence <= ConfidenceMax

C10_Witness ==
    /\ lastExec.tool = "propose_edit"
    /\ Len(suggestions) = 1
    /\ suggestions[1].confidence = DEFAULT_CONFIDENCE
    /\ dbStatus = "completed"

\* C11: a propose_edit dispatch with a confidence outside [0, 1] against an
\* existing section persists a row with the confidence clamped to the nearer
\* bound and returns a success result.
C11_OutOfRangeClamped ==
    [][ (/\ pc = "execute"
         /\ CurrentCall.name = "propose_edit"
         /\ IsMapping(CurrentCall.arguments)
         /\ Has(CurrentCall.arguments.bag, "confidence")
         /\ \/ CurrentCall.arguments.bag.confidence > ConfidenceMax
            \/ CurrentCall.arguments.bag.confidence < ConfidenceMin
         /\ CurrentCall.arguments.bag.section_id \in StoredSections
         /\ lastExec'.fault = "none") =>
          /\ Len(pending') = Len(pending) + 1
          /\ pending'[Len(pending')].confidence =
                IF CurrentCall.arguments.bag.confidence > ConfidenceMax
                THEN ConfidenceMax ELSE ConfidenceMin
          /\ "success" \in DOMAIN lastExec'.ret
      ]_vars

\* the constraints the tools declare, as the argument models state them
DeclaredViolation(c) ==
    LET b == c.arguments.bag
    IN  \/ /\ c.name = "semantic_search"
           /\ \/ Has(b, "query") /\ b.query = ""
              \/ Has(b, "n_results") /\ (b.n_results < NResultsMin \/ b.n_results > NResultsMax)
        \/ /\ c.name = "propose_edit"
           /\ Has(b, "confidence")
           /\ (b.confidence < ConfidenceMin \/ b.confidence > ConfidenceMax)
        \/ /\ c.name = "find_dependencies"
           /\ Has(b, "direction")
           /\ b.direction \notin {"incoming", "outgoing", "both"}
        \/ /\ c.name \in {"get_section_content", "find_dependencies", "propose_edit"}
           /\ Has(b, "section_id")
           /\ b.section_id \notin UuidStrings
        \/ /\ c.name = "get_document_structure"
           /\ Has(b, "document_id")
           /\ b.document_id \notin UuidStrings

\* C12: an argument bag that violates a declared constraint makes
\* validate_tool_args raise a validation error, and execute returns a result
\* whose error starts with 'Validation error'.
C12_ConstraintViolationsRejected ==
    [][ (/\ pc = "execute"
         /\ IsMapping(CurrentCall.arguments)
         /\ DeclaredViolation(CurrentCall)) =>
          /\ validate_tool_args(CurrentCall.name, CurrentCall.arguments).raises
                = "ValueError"
          /\ ~lastExec'.raised
          /\ IsError(lastExec'.ret)
          /\ lastExec'.ret.error[1] = "Validation error"
      ]_vars

C12_Witness ==
    /\ lastExec.tool = "semantic_search"
    /\ IsMapping(lastExec.args)
    /\ lastExec.args.bag = [query |-> "auth", n_results |-> 100]
    /\ lastExec.validation = "ValueError"
    /\ lastExec.ret.error[1] = "Validation error"
    /\ Cardinality(ToolTurns(messages)) = 1

\* a dispatch of a valid propose_edit whose section is not stored
MissingSectionEdit(c) ==
    /\ c.name = "propose_edit"
    /\ validate_tool_args(c.name, c.arguments).raises = "none"
    /\ c.arguments.bag.section_id \notin StoredSections

\* C13: propose_edit against a section id that does not exist (the lookup
\* itself answering) returns the error 'Section {id} not found', adds nothing
\* to proposed_edits, writes nothing (no row added, no flush: the lookup is
\* the only collaborator call) and publishes no event.
C13_MissingSectionWritesNothing ==
    [][ (/\ pc = "execute"
         /\ MissingSectionEdit(CurrentCall)
         /\ lastExec'.fault # "collaborator") =>
          /\ ~lastExec'.raised
          /\ lastExec'.ret = [error |-> <<"Section", CurrentCall.arguments.bag.section_id,
                                          "not found">>]
          /\ proposed_edits' = proposed_edits
          /\ pending' = pending
          /\ suggestions' = suggestions
          /\ collabCalls' = collabCalls + 1
          /\ events' = events ]_vars

C13_Witness ==
    /\ lastExec.tool = "propose_edit"
    /\ lastExec.validation = "none"
    /\ lastExec.fault = "flush"
    /\ lastExec.ret = [error |-> <<"Section", "sec-9", "not found">>]
    /\ proposed_edits = <<>>
    /\ pending = <<>>
    /\ collabCalls = 1
    /\ Cardinality(ToolTurns(messages)) = 1

\* the tool-result turns that carry the content of section s
SectionHits(msgs, s) ==
    { i \in ToolTurns(msgs) : /\ "order" \in DOMAIN msgs[i].content
                              /\ msgs[i].content.section_id = s }

\* C14: a valid get_section_content adds the section id to analyzed_sections
\* exactly when the section is found; a call for an id already in the set
\* leaves the set as it is, so the set grows by at most one per distinct id;
\* a miss returns 'Section {id} not found' and leaves the set unchanged.
C14_AnalyzedOnlyOnHit ==
    [][ (/\ pc = "execute"
         /\ CurrentCall.name = "get_section_content"
         /\ validate_tool_args(CurrentCall.name, CurrentCall.arguments).raises = "none") =>
          LET id == CurrentCall.arguments.bag.section_id
              hit == "order" \in DOMAIN lastExec'.ret
          IN  /\ hit => /\ id \in StoredSections
                        /\ lastExec'.ret.section_id = id
                        /\ analyzed_sections' = analyzed_sections \cup {id}
              /\ ~hit => analyzed_sections' = analyzed_sections
              /\ (id \in StoredSections /\ lastExec'.fault # "collaborator") => hit
              /\ (id \notin StoredSections /\ lastExec'.fault # "collaborator") =>
                    lastExec'.ret = [error |-> <<"Section", id, "not found">>]
              /\ id \in analyzed_sections => analyzed_sections' = analyzed_sections
              /\ Cardinality(analyzed_sections') <= Cardinality(analyzed_sections) + 1 ]_vars

C14_Witness ==
    /\ Cardinality(SectionHits(messages, "sec-1")) = 2
    /\ analyzed_sections = {"sec-1"}

\* execute is about to dispatch a semantic_search whose arguments validate
ValidSearchDispatch ==
    /\ pc = "execute"
    /\ CurrentCall.name = "semantic_search"
    /\ validate_tool_args(CurrentCall.name, CurrentCall.arguments).raises = "none"

\* C15: every semantic_search dispatch that passes validation appends its
\* query to searched_queries exactly once, whether or not the search then
\* fails, and no other step of a run changes the list; duplicates are kept,
\* so searches_performed counts dispatches, not successful searches.
C15_QueryAppendedPerDispatch ==
    [][ /\ IF ValidSearchDispatch
           THEN searched_queries' = Append(searched_queries,
                                           CurrentCall.arguments.bag.query)
           ELSE searched_queries' = searched_queries
        /\ Stats'.searches_performed =
              Stats.searches_performed + (IF ValidSearchDispatch THEN 1 ELSE 0) ]_vars

C15_Witness ==
    /\ lastExec.tool = "semantic_search"
    /\ lastExec.fault = "collaborator"
    /\ IsError(lastExec.ret)
    /\ searched_queries = <<"auth", "auth">>
    /\ Cardinality(ToolTurns(messages)) = 2

\* the suggestion events among evs
SuggestionEvents(evs) == { j \in DOMAIN evs : evs[j].event = "suggestion" }

\* C16: a propose_edit dispatch that persists a suggestion is followed by
\* exactly one suggestion event carrying that suggestion's id, so the number
\* of suggestion events of a run equals the number of suggestions it persisted.
C16_SuggestionEventPerEdit ==
    [][ (/\ pc = "execute"
         /\ CurrentCall.name = "propose_edit"
         /\ Len(pending') = Len(pending) + 1) =>
          /\ Cardinality(SuggestionEvents(events')) =
                Cardinality(SuggestionEvents(events)) + 1
          /\ Len(events') = Len(events) + 1
          /\ events'[Len(events')].event = "suggestion"
          /\ events'[Len(events')].n = pending'[Len(pending')].id ]_vars

\* C17: when the search has succeeded and publishing its search_complete
\* event raises, execute still returns the handler's SearchResult, not an
\* error, and that result is the content of the tool-result turn.
C17_PublishFailureKeepsResult ==
    [][ (/\ ValidSearchDispatch
         /\ mode = "celery"
         /\ lastExec'.fault = "publish") =>
          /\ ~IsError(lastExec'.ret)
          /\ "count" \in DOMAIN lastExec'.ret
          /\ messages'[Len(messages')].content = lastExec'.ret ]_vars

\* the events of one type among evs
EventsOf(evs, kind) == { j \in DOMAIN evs : evs[j].event = kind }

\* the completion service has raised in this invocation
CompletionRaised == exc = CompletionFailed

\* the end of a run whose completion service raised
FailedOnCompletion ==
    /\ pc = "returned"
    /\ dbStatus = "failed"
    /\ dbError = CompletionFailed
    /\ result = ProcessResult("failed", CompletionFailed)
    /\ Cardinality(EventsOf(events, "error")) = 1
    /\ EventsOf(events, "completed") = {}

\* C18: if the completion service raises on some iteration of a run (every
\* other collaborator working), process does not re-raise, and the run ends
\* with the persisted status Failed, error_message equal to the exception's
\* message, exactly one error event, no completed event, and the result
\* 'failed' carrying that message.
C18_CompletionFailureEndsFailed ==
    /\ [](CompletionRaised =>
            /\ pc \in {"except", "error", "returned"}
            /\ EventsOf(events, "completed") = {}
            /\ Cardinality(EventsOf(events, "error")) <= 1
            /\ pc = "returned" => FailedOnCompletion)
    /\ (CompletionRaised ~> FailedOnCompletion)

C18_Witness ==
    /\ FailedOnCompletion
    /\ completions = 2
    /\ iteration = 1
    /\ Len(suggestions) = 1

\* the suggestion ids of the committed rows
CommittedIds == { suggestions[i].id : i \in DOMAIN suggestions }

\* the ids of the edits propose_edit reported as created in this invocation
ProposedIds == { proposed_edits[i].suggestion_id : i \in DOMAIN proposed_edits }

\* C19: once a run has been marked Failed, every suggestion that propose_edit
\* created earlier in that invocation is still in durable storage: the
\* failure path neither deletes it nor rolls back the transaction holding it.
C19_EditsSurviveFailure ==
    (dbStatus = "failed" /\ pc \in {"returned", "raised"}) =>
        ProposedIds \subseteq CommittedIds

\* C20: an edit is durable from the moment propose_edit returns success: when
\* the worker is killed after that return and before the next write of the
\* run's status, the suggestion is still in durable storage.
C20_EditDurableOnReturn ==
    pc = "killed" => ProposedIds \subseteq CommittedIds

\* C21: when process returns 'completed', the completed event's
\* total_suggestions, the returned suggestions_created, the count in the
\* persisted status message and the number of suggestion rows the invocation
\* persisted are equal; searches_performed is the length of searched_queries
\* and sections_analyzed the size of analyzed_sections.
C21_CompletedCountsAgree ==
    (pc = "returned" /\ result.status = "completed") =>
        /\ Cardinality(EventsOf(events, "completed")) = 1
        /\ \A j \in EventsOf(events, "completed") :
              events[j].n = result.suggestions_created
        /\ result.suggestions_created = dbMessage
        /\ dbMessage = Len(suggestions)
        /\ pending = <<>>
        /\ result.searches_performed = Len(searched_queries)
        /\ result.sections_analyzed = Cardinality(analyzed_sections)

C21_Witness ==
    /\ pc = "returned"
    /\ result.status = "completed"
    /\ result.suggestions_created = 1
    /\ result.searches_performed = 1
    /\ Len(suggestions) = 1
    /\ dbMessage = 1

\* C22: if no run with the given id exists (the lookup and the publisher
\* working, the worker not killed), process calls the completion service not at all, writes nothing,
\* publishes exactly one error event 'Query not found' and no status event,
\* and returns 'failed'.
C22_MissingRunReported ==
    /\ [][ (pc = "load" /\ dbStatus = "absent" /\ pc' \notin {"load", "raised", "killed"}) =>
              /\ pc' = "returned"
              /\ result' = ProcessResult("failed", <<"Query not found">>)
              /\ events' = <<Event("error", "Query not found", NoCall, 0)>>
              /\ completions' = 0
              /\ UNCHANGED <<dbVars, pending, messages, collabCalls>> ]_vars
    /\ []((pc = "returned" /\ result.error = <<"Query not found">>) =>
              /\ result.status = "failed"
              /\ completions = 0
              /\ Len(events) = 1
              /\ EventsOf(events, "status") = {}
              /\ dbStatus = "absent"
              /\ suggestions = <<>> /\ pending = <<>>)

C22_Witness ==
    /\ pc = "returned"
    /\ result = ProcessResult("failed", <<"Query not found">>)
    /\ dbStatus = "absent"
    /\ events = <<Event("error", "Query not found", NoCall, 0)>>
    /\ completions = 0

\* s is an initial part of t
IsPrefix(s, t) == Len(s) <= Len(t) /\ \A i \in 1..Len(s) : s[i] = t[i]

\* C23: in each bus mode the events yielded by events() are the events given
\* to publish, in call order, none duplicated, reordered or skipped: what has
\* been yielded is always an initial part of what was published, and all of
\* it once events() has ended on the sentinel, also across the read batches
\* of the durable mode.
C23_EventsInPublishOrder ==
    /\ IsPrefix(yieldedDirect, published)
    /\ IsPrefix(yieldedRedis, published)
    /\ directDone => yieldedDirect = published
    /\ subPc = "done" => yieldedRedis = published
    /\ last_id = Len(yieldedRedis) + (IF subPc = "done" THEN 1 ELSE 0)

C23_Witness ==
    /\ directDone /\ yieldedDirect = published
    /\ subPc = "done" /\ yieldedRedis = published
    /\ Len(published) = MaxEvents
    /\ Len(published) > XREAD_COUNT

\* C24: for the same publish calls followed by close, the two events()
\* deliver the same sequence: equal in length and, position by position, in
\* event kind, data payload and query_id.
C24_ModesDeliverTheSame ==
    /\ \A i \in 1..Min(Len(yieldedDirect), Len(yieldedRedis)) :
          /\ yieldedDirect[i].event = yieldedRedis[i].event
          /\ yieldedDirect[i].data = yieldedRedis[i].data
          /\ yieldedDirect[i].query_id = yieldedRedis[i].query_id
    /\ (directDone /\ subPc = "done") => Len(yieldedDirect) = Len(yieldedRedis)

C24_Witness ==
    /\ directDone /\ subPc = "done"
    /\ Len(yieldedDirect) = MaxEvents - 1
    /\ yieldedRedis = yieldedDirect
    /\ late = 1

\* C25: a subscriber created after n events were published loses none of
\* them: from its creation on, what it has yielded followed by the events of
\* the entries after its cursor (up to the sentinel) is what was published.
C25_LateSubscriberLosesNothing ==
    subPc \in {"loop", "batch"} =>
        LET after == SelectSeq(stream, LAMBDA m : m.id > last_id)
            evs == [i \in 1..Len(after) |-> FromJson(after[i].event).event]
            ends == { i \in 1..Len(after) : evs[i] = Sentinel }
            stop == IF ends = {} THEN Len(after) + 1
                    ELSE CHOOSE i \in ends : \A j \in ends : i <= j
        IN  yieldedRedis \o SubSeq(evs, 1, stop - 1) = published

C25_Witness ==
    /\ subPc = "batch"
    /\ yieldedRedis = <<>>
    /\ last_id = 0
    /\ Len(batch) = XREAD_COUNT
    /\ batch[1].id = 1
    /\ closed
    /\ Len(published) = MaxEvents

\* C26: in both bus modes events() never yields the sentinel and yields
\* nothing after it; a publish made on the in-process publisher after close
\* puts nothing on the queue.
C26_NothingAfterSentinel ==
    /\ [](/\ \A i \in DOMAIN yieldedDirect : yieldedDirect[i] # Sentinel
          /\ \A i \in DOMAIN yieldedRedis : yieldedRedis[i] # Sentinel)
    /\ [][ /\ directDone => (directDone' /\ yieldedDirect' = yieldedDirect)
           /\ subPc = "done" => (subPc' = "done" /\ yieldedRedis' = yieldedRedis)
           /\ closed => (closed' /\ Len(queue') <= Len(queue)) ]_vars

C26_Witness ==
    /\ late >= 1
    /\ directDone /\ queue = <<>>
    /\ subPc = "done"
    /\ stream[Len(stream)].id > last_id
    /\ yieldedDirect = published /\ yieldedRedis = published

\* C27: a subscriber of a stream on which no sentinel is published always
\* ends: once its budget is exceeded it yields exactly one error event
\* 'Event stream timeout', as its last event, also when reads keep failing
\* or keep returning nothing.
C27_SubscriberTimesOut ==
    /\ [](subPc = "done" =>
            /\ yieldedRedis # <<>>
            /\ yieldedRedis[Len(yieldedRedis)] = TimeoutEvent
            /\ Cardinality({ i \in DOMAIN yieldedRedis : yieldedRedis[i].event = "error" }) = 1
            /\ elapsed > SubscriberTimeout)
    /\ [][ subPc = "done" => UNCHANGED <<subPc, yieldedRedis>> ]_vars
    /\ (subPc = "loop" ~> subPc = "done")

C27_Witness ==
    /\ subPc = "done"
    /\ Len(yieldedRedis) = MaxOpenEvents + 2
    /\ yieldedRedis[Len(yieldedRedis)] = TimeoutEvent
    /\ \E i \in DOMAIN yieldedRedis : yieldedRedis[i] = HeartbeatEvent

\* C28: when the job has raised and the failure hook runs (the database
\* answering it), a run that exists gets status Failed and the exception's text
\* as error_message, nothing else of it changes, and a run that does not exist
\* is left absent with nothing written; the hook never sets Processing or
\* Completed.
C28_OnFailureMarksFailed ==
    [][ (job = "raised" /\ job' = "failed") =>
            /\ dbStatus' \notin {"processing", "completed"} \/ dbStatus' = dbStatus
            /\ IF dbStatus = "absent"
               THEN UNCHANGED dbVars
               ELSE /\ dbStatus' = "failed"
                    /\ dbError' = exc
                    /\ UNCHANGED <<dbMessage, suggestions>> ]_vars

\* process returned 'completed', the commit at the job's exit raised, and the
\* hook has marked the run Failed with that exception's text
C28_Witness ==
    /\ job = "failed"
    /\ pc = "returned"
    /\ result.status = "completed"
    /\ dbStatus = "failed"
    /\ dbError = DbFailed

C30_CleanupDeletesOldTerminalOnly ==
    [][ (cleanPc # "idle" /\ cleanPc' = "idle" /\ deleted_count' # NoCount) =>
            LET old == { i \in 1..MaxRuns :
                            /\ queries[i].status \in {"completed", "failed"}
                            /\ queries[i].created_at < cutoff_date }
                gone == { i \in 1..MaxRuns :
                            queries[i].status # "absent" /\ queries'[i].status = "absent" }
            IN /\ gone \subseteq old
               /\ cleanPc # "stale" => gone = old
               /\ deleted_count' = Cardinality(gone)
               /\ \A i \in 1..MaxRuns : i \notin gone => queries'[i] = queries[i]
               /\ cleanPc = "reselected" => deleted_count' = 0 ]_vars

\* C31: the names advertised in TOOLS, the keys of TOOL_ARG_SCHEMAS and the
\* keys of the handlers map of execute are the same six names, and no call of
\* an advertised tool is answered with 'Unknown tool'.
C31_SameSixTools ==
    LET advertised == { TOOLS[i] : i \in DOMAIN TOOLS } IN
    /\ Len(TOOLS) = 6
    /\ Cardinality(advertised) = 6
    /\ advertised = TOOL_ARG_SCHEMAS
    /\ TOOL_ARG_SCHEMAS = Handlers
    /\ (lastExec.tool \in advertised /\ IsError(lastExec.ret))
          => ~Contains(lastExec.ret.error, "Unknown tool")

\* the last advertised tool was requested and its handler has answered
C31_Witness ==
    /\ lastExec.tool = TOOLS[6]
    /\ ~lastExec.raised
    /\ ~IsError(lastExec.ret)

\* C32: at most one invocation of process is active for the run at a time,
\* under every interleaving of the requests made to the two endpoints.
C32_OneActiveInvocation ==
    Cardinality({ r \in 1..MaxRequests : invocations[r] \in {"load", "loop"} }) <= 1

C39_CancelledRunIsTerminal ==
    (mode = "direct" /\ pc = "cancelled" /\ dbStatus # "absent") => dbStatus \in Terminal

C35_TranscriptOnlyGrows ==
    /\ []( messages # <<>> =>
            /\ Len(messages) >= 2
            /\ messages[1].role = "system"
            /\ messages[2].role = "user"
            /\ \A i \in 3..Len(messages) : messages[i].role \in {"assistant", "tool"}
            /\ Len(messages) >= 3 => messages[3].role = "assistant"
            /\ Len(messages) >= 2 + 2 * iteration
            /\ \A i \in AssistantTurns(messages) :
                LET k == Len(messages[i].tool_calls)
                IN  /\ \A j \in 1..k : i + j <= Len(messages) => messages[i + j].role = "tool"
                    /\ i + k + 1 <= Len(messages) => messages[i + k + 1].role = "assistant" )
    /\ [][ /\ messages # <<>> =>
                (IsPrefix(messages, messages') /\ Len(messages') <= Len(messages) + 1)
           /\ messages = <<>> => Len(messages') \in {0, 2}
           /\ (completions' = completions + 1 /\ pc' # "except") =>
                (Len(messages') = Len(messages) + 1 /\ messages'[Len(messages')].role = "assistant")
           /\ iteration' = iteration + 1 => Len(messages') = Len(messages) + 1 ]_vars

C35_Witness ==
    /\ Len(messages) = 6
    /\ Len(messages[3].tool_calls) = 2
    /\ messages[4].role = "tool" /\ messages[5].role = "tool"
    /\ messages[6].role = "assistant" /\ messages[6].tool_calls = <<>>
    /\ pc = "returned"

\* C36: the calls c1..ck of one assistant reply are handled one at a time in
\* the given order: the tool_call event of a call is published only when every
\* call announced before has its tool-result turn, and it is the event of the
\* next call of the reply still unanswered; the tool-result turn appended by a
\* dispatch is keyed by the call announced last and dispatched with that
\* call's tool; the tool-result turns stand directly after their assistant turn
\* in the order c1..ck, each keyed by its own call id.
C36_ToolCallsInOrder ==
    /\ []( \A i \in AssistantTurns(messages) :
            \A j \in 1..Len(messages[i].tool_calls) :
                i + j <= Len(messages) =>
                    /\ messages[i + j].role = "tool"
                    /\ messages[i + j].tool_call_id = messages[i].tool_calls[j] )
    /\ [][ LET Answered(msgs) == { msgs[t].tool_call_id : t \in ToolTurns(msgs) }
               lastA == CHOOSE i \in AssistantTurns(messages) :
                            \A h \in AssistantTurns(messages) : h <= i
               e == events'[Len(events')]
               m == messages'[Len(messages')]
           IN  /\ (Len(events') = Len(events) + 1 /\ e.event = "tool_call") =>
                    /\ Announced(events) \subseteq Answered(messages)
                    /\ e.call \notin Announced(events)
                    /\ e.call = messages[lastA].tool_calls[Len(messages) - lastA + 1]
                    /\ e.tool = toolCalls[callIdx].name
                    /\ messages' = messages
               /\ (Len(messages') = Len(messages) + 1 /\ m.role = "tool") =>
                    /\ m.tool_call_id \in Announced(events)
                    /\ m.tool_call_id \notin Answered(messages)
                    /\ Announced(events) \ Answered(messages) = {m.tool_call_id}
                    /\ lastExec'.tool = toolCalls[callIdx].name
                    /\ toolCalls[callIdx].id = m.tool_call_id ]_vars

C36_Witness ==
    /\ Len(messages) >= 5
    /\ Len(messages[3].tool_calls) = 2
    /\ messages[4].tool_call_id = messages[3].tool_calls[1]
    /\ messages[5].tool_call_id = messages[3].tool_calls[2]
    /\ Cardinality(ToolCallEvents(events)) = 2
    /\ pc = "commit1"

\* C37: the subscriber yields a heartbeat only in a read that returned no
\* entries and only when at least heartbeat_interval (15 s) has passed since
\* the previous heartbeat (since the start of events() for the first one); the
\* step that yields it leaves the stream, the read cursor and the batch alone,
\* no stream entry holds a heartbeat, and the content events yielded, the
\* subscriber's own events set aside, are an initial part of the published
\* events: none is skipped, duplicated or reordered.
C37_HeartbeatOnlyWhenIdle ==
    /\ [][ /\ (Len(yieldedRedis') = Len(yieldedRedis) + 1
               /\ yieldedRedis'[Len(yieldedRedis')] = HeartbeatEvent) =>
                    /\ subPc = "loop" /\ subPc' = "loop"
                    /\ XRead(stream, last_id) = <<>>
                    /\ elapsed' - last_heartbeat >= heartbeat_interval
                    /\ last_heartbeat' = elapsed'
                    /\ stream' = stream
                    /\ last_id' = last_id
                    /\ batch' = batch
           /\ (last_heartbeat' # last_heartbeat /\ subPc # "none") =>
                    (Len(yieldedRedis') = Len(yieldedRedis) + 1
                     /\ yieldedRedis'[Len(yieldedRedis')] = HeartbeatEvent) ]_vars
    /\ [](\A i \in DOMAIN stream : FromJson(stream[i].event).event # HeartbeatEvent)
    /\ [](IsPrefix(SelectSeq(yieldedRedis,
                             LAMBDA ev : ev # HeartbeatEvent /\ ev # TimeoutEvent),
                   published))

C37_Witness ==
    /\ published # <<>>
    /\ \E i, j, k \in DOMAIN yieldedRedis :
        /\ i < j /\ j < k
        /\ yieldedRedis[i] = HeartbeatEvent
        /\ yieldedRedis[j] = published[1]
        /\ yieldedRedis[k] = HeartbeatEvent

\* C38: the durable subscriber of an attempt delivers only events published
\* by that attempt: what it has yielded is an initial part of what the
\* attempt's publisher has published, and it ends on the sentinel only after
\* the attempt's publisher was closed.
C38_OnlyThisAttemptsEvents ==
    /\ IsPrefix(yieldedRedis, published)
    /\ subPc = "done" => closed

\* C40: a retry or a re-processing does not apply propose_edit twice: when
\* an attempt has completed, the suggestions the run holds are the ones that
\* attempt proposed: none is left from an earlier attempt, so none repeats an
\* edit an earlier attempt persisted.
C40_OnlyThisAttemptsSuggestions ==
    (pc = "returned" /\ dbStatus = "completed" /\ result.status = "completed") =>
        CommittedIds = ProposedIds

=============================================================================
